---- MODULE Spec2Model ----
(***************************************************************************)
(* Motor bridge (alxprgs/RTC_RDP_Server): the serial command channel       *)
(* (SerialManager), the E-STOP latch, the idle watchdog and the WebSocket  *)
(* joystick session, as state machines over one set of variables.          *)
(*                                                                         *)
(* Text is modelled as sequences of one-character strings, so that prefix  *)
(* tests, upper-casing and sanitising are computed, not assumed.           *)
(***************************************************************************)
EXTENDS Integers, Sequences, FiniteSets, TLC

(***************************************************************************)
(* Characters and words                                                    *)
(***************************************************************************)

LowerChars == <<"a","b","c","d","e","f","g","h","i","j","k","l","m",
                "n","o","p","q","r","s","t","u","v","w","x","y","z">>

UpperChars == <<"A","B","C","D","E","F","G","H","I","J","K","L","M",
                "N","O","P","Q","R","S","T","U","V","W","X","Y","Z">>

\* str.upper() on one character
UpperChar(c) ==
    IF \E i \in 1..26 : LowerChars[i] = c
    THEN UpperChars[CHOOSE i \in 1..26 : LowerChars[i] = c]
    ELSE c

\* str.upper(). Here and below an operator takes the value of its argument
\* once, through a bound variable: CHOOSE r \in {e(v) : v \in {s}} : TRUE is e(s)
Upper(s) == CHOOSE r \in {[i \in 1..Len(v) |-> UpperChar(v[i])] : v \in {s}} : TRUE

\* str.lower()
Lower(s) ==
    CHOOSE r \in {[i \in 1..Len(v) |->
                     IF \E k \in 1..26 : UpperChars[k] = v[i]
                     THEN LowerChars[CHOOSE k \in 1..26 : UpperChars[k] = v[i]]
                     ELSE v[i]] : v \in {s}} : TRUE

\* str.startswith(p)
StartsWith(s, p) == Len(p) <= Len(s) /\ SubSeq(s, 1, Len(p)) = p

\* the characters Python's str.strip()/split() treat as white space; "TAB",
\* "CR" and "LF" stand for the control characters
WhiteChars == {" ", "TAB", "CR", "LF"}

\* characters outside 33..126 other than the space: "BOM" is U+FEFF,
\* "NUL" a control byte
NonPrintChars == {"TAB", "CR", "LF", "BOM", "NUL"}

RECURSIVE LStrip(_)
LStrip(s) ==
    CHOOSE r \in {
        IF v = <<>> THEN <<>>
        ELSE IF Head(v) \in WhiteChars THEN LStrip(Tail(v)) ELSE v
      : v \in {s}} : TRUE

RECURSIVE RStrip(_)
RStrip(s) ==
    CHOOSE r \in {
        IF v = <<>> THEN <<>>
        ELSE IF v[Len(v)] \in WhiteChars THEN RStrip(SubSeq(v, 1, Len(v) - 1)) ELSE v
      : v \in {s}} : TRUE

\* str.strip()
Strip(s) == RStrip(LStrip(s))

\* str.split(): the list of maximal runs of non-white characters
RECURSIVE SplitWords(_)
SplitWords(s) ==
    CHOOSE r \in {
        IF t = <<>> THEN <<>>
        ELSE LET n == IF \E i \in 1..Len(t) : t[i] \in WhiteChars
                      THEN (CHOOSE i \in 1..Len(t) :
                                /\ t[i] \in WhiteChars
                                /\ \A j \in 1..(i - 1) : t[j] \notin WhiteChars) - 1
                      ELSE Len(t)
             IN <<SubSeq(t, 1, n)>> \o SplitWords(SubSeq(t, n + 1, Len(t)))
      : t \in {LStrip(s)}} : TRUE

\* " ".join(words)
RECURSIVE JoinWords(_)
JoinWords(words) ==
    CHOOSE r \in {
        IF v = <<>> THEN <<>>
        ELSE IF Len(v) = 1 THEN v[1]
        ELSE v[1] \o <<" ">> \o JoinWords(Tail(v))
      : v \in {words}} : TRUE

\* s.lstrip(BOM, U+FFFD): "BOM" stands for both
RECURSIVE LStripBom(_)
LStripBom(s) ==
    CHOOSE r \in {
        IF v = <<>> THEN <<>>
        ELSE IF Head(v) = "BOM" THEN LStripBom(Tail(v)) ELSE v
      : v \in {s}} : TRUE

\* "".join(ch for ch in s if ch == " " or 33 <= ord(ch) <= 126)
RECURSIVE KeepPrintable(_)
KeepPrintable(s) ==
    CHOOSE r \in {
        IF v = <<>> THEN <<>>
        ELSE IF Head(v) \in NonPrintChars THEN KeepPrintable(Tail(v))
        ELSE <<Head(v)>> \o KeepPrintable(Tail(v))
      : v \in {s}} : TRUE

\* a sanitizer that drops the unprintable characters and keeps the spaces
sanitize_outgoing_line_NoJoin(s) ==
    KeepPrintable(LStripBom(Strip(s)))

sanitize_outgoing_line(s) ==
    JoinWords(SplitWords(KeepPrintable(LStripBom(Strip(s)))))

\* str(n) for an integer
RECURSIVE NatChars(_)
NatChars(n) ==
    LET d == <<"0","1","2","3","4","5","6","7","8","9">> IN
    IF n < 10 THEN <<d[n + 1]>> ELSE NatChars(n \div 10) \o <<d[(n % 10) + 1]>>

IntChars(n) == IF n < 0 THEN <<"-">> \o NatChars(0 - n) ELSE NatChars(n)

(***************************************************************************)
(* Protocol words and lines                                                *)
(***************************************************************************)

\* the words of the protocol as sequences of characters: the upper-cased forms
\* the channel compares with, and the spellings the callers send
W ==
    [ OK           |-> <<"O","K">>,
      ERR          |-> <<"E","R","R">>,
      PING         |-> <<"P","I","N","G">>,
      PONG         |-> <<"P","O","N","G">>,
      READY        |-> <<"R","E","A","D","Y">>,
      PINS         |-> <<"P","I","N","S">>,
      CMDS         |-> <<"C","M","D","S">>,
      START        |-> <<"S","T","A","R","T">>,
      SERVO_PWR    |-> <<"S","E","R","V","O","_","P","W","R">>,
      SERVOPWR     |-> <<"S","E","R","V","O","P","W","R">>,
      TELEM        |-> <<"T","E","L","E","M">>,
      TELEMETRY    |-> <<"T","E","L","E","M","E","T","R","Y">>,
      SETAENGINE   |-> <<"S","E","T","A","E","N","G","I","N","E">>,
      SETBENGINE   |-> <<"S","E","T","B","E","N","G","I","N","E">>,
      SETALLENGINE |-> <<"S","E","T","A","L","L","E","N","G","I","N","E">>,
      SETSERVO     |-> <<"S","E","T","S","E","R","V","O">>,
      SETSERVOS    |-> <<"S","E","T","S","E","R","V","O","S">>,
      SERVOCENTER  |-> <<"S","E","R","V","O","C","E","N","T","E","R">>,
      SERVO_CENTER |-> <<"S","E","R","V","O","_","C","E","N","T","E","R">>,
      SERVOATTACH  |-> <<"S","E","R","V","O","A","T","T","A","C","H">>,
      SERVODETACH  |-> <<"S","E","R","V","O","D","E","T","A","C","H">>,
      ESTOP        |-> <<"E","S","T","O","P">>,
      RESET        |-> <<"R","E","S","E","T">>,
      SetAEngine   |-> <<"S","e","t","A","E","n","g","i","n","e">>,
      SetBEngine   |-> <<"S","e","t","B","E","n","g","i","n","e">>,
      SetServo     |-> <<"S","e","t","S","e","r","v","o">>,
      EStop        |-> <<"E","S","t","o","p">> ]

SP == <<" ">>

\* the lines the callers send and the prefixes they expect
L ==
    [ StopA      |-> W.SetAEngine \o SP \o <<"0">>,
      StopB      |-> W.SetBEngine \o SP \o <<"0">>,
      EStop      |-> W.EStop,
      EStopReset |-> W.EStop \o SP \o W.RESET,
      PING       |-> W.PING,
      ServoPwrQ  |-> <<"S","e","r","v","o","P","w","r","?">>,
      FWVER      |-> <<"F","W","V","E","R">>,
      ERR        |-> W.ERR \o SP \o <<"B","a","d">>,
      OK_ESTOP   |-> W.OK \o SP \o W.ESTOP,
      OK_PONG    |-> W.OK \o SP \o W.PONG ]

IGNORE_LINE_PREFIXES_UPPER ==
    << W.OK \o SP \o W.READY,
       W.OK \o SP \o W.PINS,
       W.OK \o SP \o W.CMDS,
       W.OK \o SP \o W.SERVO_PWR \o <<"?">>,
       W.OK \o SP \o W.START >>

infer_expect_prefixes_upper(cmd_line) ==
    CHOOSE r \in {
    IF clean = <<>> THEN <<W.OK>>
    ELSE CHOOSE r1 \in {
         IF name = W.PING THEN <<W.OK \o SP \o W.PONG>>
         ELSE IF name = W.SERVOPWR THEN <<W.OK \o SP \o W.SERVO_PWR>>
         ELSE IF name \in {W.TELEM, W.TELEMETRY} THEN <<W.OK \o SP \o W.TELEM>>
         ELSE IF name \in {W.SETAENGINE, W.SETBENGINE, W.SETALLENGINE}
              THEN <<W.OK \o SP \o name>>
         ELSE IF name = W.SETSERVO THEN <<W.OK \o SP \o W.SETSERVO>>
         ELSE IF name = W.SETSERVOS THEN <<W.OK \o SP \o W.SETSERVOS>>
         ELSE IF name \in {W.SERVOCENTER, W.SERVO_CENTER}
              THEN <<W.OK \o SP \o W.SERVO_CENTER>>
         ELSE IF name = W.ESTOP THEN <<W.OK \o SP \o W.ESTOP>>
         ELSE <<W.OK>>
         : name \in {Upper(Strip(SplitWords(clean)[1]))}} : TRUE
      : clean \in {Strip(cmd_line)}} : TRUE

\* any(s_up.startswith(p) for p in prefixes)
AnyPrefix(s_up, prefixes) ==
    \E i \in 1..Len(prefixes) : StartsWith(s_up, prefixes[i])

(***************************************************************************)
(* Bounds of the model                                                     *)
(***************************************************************************)

\* invocations of each handler in one behaviour
MaxReqs == 1
\* unsolicited banner lines the device emits in one behaviour
MaxBanners == 1
\* lines the scripted device emits in one behaviour
MaxLines == 2
\* the clock runs from 1 to MaxTime, in units of about 0.5 s
MaxTime == 7
\* the reply wait of one command (max_wait_s, 2.0 s and more), in clock units
MaxWait == 4
\* watchdog_tick_s (0.2 s), in clock units
WatchdogTick == 1
\* watchdog_motor_idle_s (1.5 s), in clock units
MotorIdle == 3
\* watchdog_servo_idle_s (6 s), in clock units
ServoIdle == 12
\* joystick samples a WS client sends in one session
MaxSamples == 3
\* POST /servo/{id} requests in one behaviour
MaxServoReqs == 2
\* the servo clock (0.1 ms a tick) runs up to MaxServoTime
MaxServoTime == 11400
\* faults in one behaviour: a port that fails to open or to write, a reply that
\* does not arrive in time, an ERR reply
MaxFaults == 1

(***************************************************************************)
(* State                                                                   *)
(***************************************************************************)

VARIABLES
    now,                  \* time.monotonic()
    settings,             \* app.state.settings (fixed at start-up)
    device_info,          \* app.state.device_info as the start-up probe left it
    fn,                   \* a function called on its own: name, arguments, result
    servo,                \* app.state.servo_state and the locals of set_servo_deg
    ser_open,             \* SerialManager._ser is an open port (LinkState)
    rx_buf,               \* lines received and not yet read, oldest first
    lock_owner,           \* SerialManager._lock: the task holding it
    lock_waiters,         \* SerialManager._lock: tasks waiting, in arrival order
    last_motor_ts,        \* SerialManager.last_motor_ts
    last_servo_ts,        \* SerialManager.last_servo_ts
    last_any_actuator_ts, \* SerialManager.last_any_actuator_ts
    workers,              \* asyncio.to_thread(_send_cmd_sync, ...) threads
    call,                 \* per task: its send_cmd / send_cmds activation
    dev_pending,          \* device: commands received and not yet answered
    banners,              \* banner lines emitted so far
    faults,               \* faults so far
    reqs,                 \* per handler: invocations started so far
    estop,                \* app.state.estop
    wd,                   \* the locals of watchdog_loop
    ws,                   \* the socket and the locals of ws_joystick
    pc,                   \* per task: where its coroutine is
    outcome               \* per request task: the last HTTP outcome

chanVars == <<ser_open, rx_buf, lock_owner, lock_waiters, workers, call,
              dev_pending, banners, faults>>
tsVars   == <<last_motor_ts, last_servo_ts, last_any_actuator_ts>>
appVars  == <<settings, device_info, fn, servo, reqs, estop, pc, outcome, wd, ws>>

NoTask == "none"
AllTasks == {"motor", "estop", "reset", "caller", "joy", "wd",
             "ws", "recv", "sender", "ping", "action", "servo", "life", "update"}
RestTasks == {"motor", "estop", "reset"}

\* the worker threads one behaviour starts: at most five for the REST requests
\* (the stop batch and "EStop" of a trigger, one command of each other
\* request), two for each joystick sample and two for each stop batch of a session
MaxWorkers == 5 * MaxReqs + 2 * MaxSamples + 4
WorkerIds == 1..MaxWorkers
Workers == 1..Len(workers)

NoLine == <<>>
NoReply == [text |-> NoLine, cid |-> 0]

IdleCall == [st |-> "idle", kind |-> "cmd", lines |-> <<>>, idx |-> 0,
             exp |-> <<>>, coe |-> TRUE, mark |-> TRUE, wid |-> 0, err |-> "none"]

\* a worker whose result has been taken (or dropped)
GoneWorker == [task |-> NoTask, line |-> NoLine, exp |-> <<>>, mark |-> FALSE,
               phase |-> "gone", sent |-> NoLine, wr_estop |-> FALSE, seen |-> 0,
               reply |-> NoReply, err |-> "none", ts0 |-> <<0, 0>>, deadline |-> 0]

(***************************************************************************)
(* SerialManager                                                           *)
(***************************************************************************)

\* _mark_activity_line: the three timestamps after marking `line` at time t
MarkedTs(line, t) ==
    CHOOSE r \in {
    IF up = <<>> THEN <<last_motor_ts, last_servo_ts, last_any_actuator_ts>>
    ELSE IF \/ StartsWith(up, W.SETAENGINE)
            \/ StartsWith(up, W.SETBENGINE)
            \/ StartsWith(up, W.SETALLENGINE)
         THEN <<t, last_servo_ts, t>>
    ELSE IF \/ StartsWith(up, W.SETSERVO)
            \/ StartsWith(up, W.SETSERVOS)
            \/ StartsWith(up, W.SERVOCENTER)
         THEN <<last_motor_ts, t, t>>
    ELSE IF StartsWith(up, W.SERVOATTACH) \/ StartsWith(up, W.SERVODETACH)
         THEN <<last_motor_ts, t, t>>
    ELSE <<last_motor_ts, last_servo_ts, last_any_actuator_ts>>
      : up \in {Upper(Strip(line))}} : TRUE

_mark_activity_line(line) ==
    LET m == MarkedTs(line, now) IN
    /\ last_motor_ts' = m[1]
    /\ last_servo_ts' = m[2]
    /\ last_any_actuator_ts' = m[3]

\* a classification that does not know the ignored prefixes
Classify_NoIgnore(s, expect_prefixes_upper) ==
    LET s_up == Upper(s) IN
    IF StartsWith(s_up, W.ERR) THEN "err"
    ELSE IF AnyPrefix(s_up, expect_prefixes_upper) THEN "match"
    ELSE "unexpected"

\* the classification of one received line in _wait_relevant_reply_sync
Classify(s, expect_prefixes_upper) ==
    LET s_up == Upper(s) IN
    IF AnyPrefix(s_up, IGNORE_LINE_PREFIXES_UPPER) THEN "ignore"
    ELSE IF StartsWith(s_up, W.ERR) THEN "err"
    ELSE IF AnyPrefix(s_up, expect_prefixes_upper) THEN "match"
    ELSE "unexpected"

\* max_lines of _send_cmd_sync as send_cmd and send_cmds pass it
max_lines == 80

\* max_wait_s of the callers (2.0 s to 3.5 s), in clock units
max_wait == MaxWait

(***************************************************************************)
(* send_cmd / send_cmds: the coroutine side                                *)
(***************************************************************************)

\* asyncio.to_thread(self._send_cmd_sync, line, exp, ...): a new worker.  sent,
\* wr_estop, reply and ts0 record what the thread wrote, the latch at the time
\* of the write, the line it took as its reply (with the command the device
\* produced it for) and the activity timestamps when the command was issued
NewWorker(t, line, exp, mark) ==
    [task |-> t, line |-> line, exp |-> exp, mark |-> mark, phase |-> "start",
     sent |-> NoLine, wr_estop |-> FALSE, seen |-> 0, reply |-> NoReply,
     err |-> "none", ts0 |-> <<last_motor_ts, last_servo_ts>>, deadline |-> 0]

\* a close() that drops the port and keeps the receive buffer
close_KeepsBuffer ==
    /\ ser_open' = FALSE
    /\ UNCHANGED rx_buf

\* SerialManager.close()
close ==
    /\ ser_open' = FALSE
    /\ rx_buf' = <<>>

\* the activation record of send_cmd(line, expect_prefixes_upper, close_on_error,
\* mark_activity) on reaching `async with self._lock`
SendCmdFrame(line, exp, coe, mark) ==
    [st |-> "wait_lock", kind |-> "cmd", lines |-> <<line>>, idx |-> 1,
     exp |-> exp, coe |-> coe, mark |-> mark, wid |-> 0, err |-> "none"]

\* the activation record of send_cmds(lines, mark_activity)
SendCmdsFrame(lines, mark) ==
    [st |-> "wait_lock", kind |-> "cmds", lines |-> lines, idx |-> 1,
     exp |-> <<>>, coe |-> TRUE, mark |-> mark, wid |-> 0, err |-> "none"]

\* task t calls send_cmd / send_cmds and queues for the lock
Enter(t, frame) ==
    /\ call' = [call EXCEPT ![t] = frame]
    /\ lock_waiters' = Append(lock_waiters, t)

\* the body of one loop round of send_cmds, or the body of send_cmd, up to its
\* await: mark (send_cmds only), then hand the line to a worker thread
StartLine(t, c, wks) ==
    LET line == c.lines[c.idx] IN
    /\ IF c.kind = "cmds"
       THEN /\ workers' = Append(wks,
                              NewWorker(t, line, infer_expect_prefixes_upper(line), FALSE))
            /\ IF c.mark THEN _mark_activity_line(line) ELSE UNCHANGED tsVars
       ELSE /\ workers' = Append(wks, NewWorker(t, line, c.exp, c.mark))
            /\ UNCHANGED tsVars
    /\ call' = [call EXCEPT ![t] = [c EXCEPT !.st = "await", !.wid = Len(wks) + 1]]

\* the lock is granted in arrival order; the holder runs to its first await
ChanBegin(t) ==
    /\ call[t].st = "wait_lock"
    /\ pc[t] # "cancelling"
    /\ lock_owner = NoTask
    /\ lock_waiters # <<>> /\ Head(lock_waiters) = t
    /\ lock_owner' = t
    /\ lock_waiters' = Tail(lock_waiters)
    /\ StartLine(t, call[t], workers)
    /\ UNCHANGED <<ser_open, rx_buf, dev_pending, banners, faults>>
    /\ UNCHANGED <<now, appVars>>

\* a send_cmds that goes on with the next line after a line has failed
ChanResume_GoesOn(t) ==
    LET c == call[t]
        w == workers[c.wid]
    IN
    /\ c.st = "await"
    /\ pc[t] # "cancelling"
    /\ w.phase \in {"ok", "err"}
    /\ IF c.kind = "cmds" /\ c.idx < Len(c.lines)
       THEN /\ StartLine(t, [c EXCEPT !.idx = c.idx + 1],
                         [workers EXCEPT ![c.wid] = GoneWorker])
            /\ UNCHANGED <<ser_open, rx_buf, lock_owner>>
       ELSE /\ call' = [call EXCEPT ![t] = [c EXCEPT !.st = w.phase, !.err = w.err]]
            /\ workers' = [workers EXCEPT ![c.wid] = GoneWorker]
            /\ lock_owner' = NoTask
            /\ UNCHANGED <<ser_open, rx_buf>>
            /\ UNCHANGED tsVars
    /\ UNCHANGED <<lock_waiters, dev_pending, banners, faults>>
    /\ UNCHANGED <<now, appVars>>

\* the awaited worker has finished: the coroutine resumes with its result
ChanResume(t) ==
    LET c == call[t]
        w == workers[c.wid]
    IN
    /\ c.st = "await"
    /\ pc[t] # "cancelling"
    /\ w.phase \in {"ok", "err"}
    /\ IF w.phase = "ok"
       THEN IF c.kind = "cmds" /\ c.idx < Len(c.lines)
            THEN /\ StartLine(t, [c EXCEPT !.idx = c.idx + 1],
                              [workers EXCEPT ![c.wid] = GoneWorker])
                 /\ UNCHANGED <<ser_open, rx_buf, lock_owner>>
            ELSE /\ call' = [call EXCEPT ![t] = [c EXCEPT !.st = "ok"]]
                 /\ workers' = [workers EXCEPT ![c.wid] = GoneWorker]
                 /\ lock_owner' = NoTask
                 /\ UNCHANGED <<ser_open, rx_buf>>
                 /\ UNCHANGED tsVars
       ELSE /\ IF c.kind = "cmds" \/ c.coe THEN close ELSE UNCHANGED <<ser_open, rx_buf>>
            /\ call' = [call EXCEPT ![t] = [c EXCEPT !.st = "err", !.err = w.err]]
            /\ workers' = [workers EXCEPT ![c.wid] = GoneWorker]
            /\ lock_owner' = NoTask
            /\ UNCHANGED tsVars
    /\ UNCHANGED <<lock_waiters, dev_pending, banners, faults>>
    /\ UNCHANGED <<now, appVars>>

(***************************************************************************)
(* _send_cmd_sync: the worker thread                                       *)
(***************************************************************************)

\* what the link does when a port is opened or written: it works, or (within
\* the fault bound) raises serial.SerialException
LinkOutcomes == IF faults < MaxFaults THEN {"works", "fails"} ELSE {"works"}

\* connect(): a closed link opens with an empty receive buffer
Connected(buf) == IF ser_open THEN buf ELSE <<>>

\* _send_cmd_sync from connect() to flush(): connect, sanitise, reject the
\* empty command, mark the activity, write the payload
W_Send(w) ==
    LET wk == workers[w]
        clean == sanitize_outgoing_line(wk.line)
    IN
    /\ w <= Len(workers)
    /\ wk.phase = "start"
    /\ UNCHANGED <<now, appVars>>
    /\ \/ \* serial.Serial(...) raises
          /\ ~ser_open /\ "fails" \in LinkOutcomes
          /\ workers' = [workers EXCEPT ![w] =
                           [wk EXCEPT !.phase = "err", !.err = "SerialException"]]
          /\ faults' = faults + 1
          /\ UNCHANGED <<ser_open, rx_buf, dev_pending>>
          /\ UNCHANGED tsVars
       \/ \* raise ValueError("Empty command")
          /\ clean = <<>>
          /\ workers' = [workers EXCEPT ![w] =
                           [wk EXCEPT !.phase = "err", !.err = "ValueError"]]
          /\ ser_open' = TRUE
          /\ rx_buf' = Connected(rx_buf)
          /\ UNCHANGED <<faults, dev_pending>>
          /\ UNCHANGED tsVars
       \/ \* self._ser.write raises
          /\ clean # <<>> /\ "fails" \in LinkOutcomes
          /\ ser_open' = TRUE
          /\ rx_buf' = Connected(rx_buf)
          /\ IF wk.mark THEN _mark_activity_line(clean) ELSE UNCHANGED tsVars
          /\ workers' = [workers EXCEPT ![w] =
                           [wk EXCEPT !.phase = "err", !.err = "SerialException"]]
          /\ faults' = faults + 1
          /\ UNCHANGED dev_pending
       \/ \* the payload is written
          /\ clean # <<>>
          /\ ser_open' = TRUE
          /\ rx_buf' = Connected(rx_buf)
          /\ IF wk.mark THEN _mark_activity_line(clean) ELSE UNCHANGED tsVars
          /\ dev_pending' = Append(dev_pending, [cid |-> w, line |-> clean])
          /\ workers' = [workers EXCEPT ![w] =
                           [wk EXCEPT !.phase = "wait", !.sent = clean,
                                      !.wr_estop = estop,
                                      !.deadline = now + max_wait,
                                      !.exp = IF wk.exp = <<>>
                                              THEN infer_expect_prefixes_upper(clean)
                                              ELSE wk.exp]]
          /\ UNCHANGED faults
    /\ UNCHANGED <<lock_owner, lock_waiters, call, banners>>

\* one round of the loop of _wait_relevant_reply_sync that reads a line
W_Read(w) ==
    LET wk == workers[w] IN
    /\ w <= Len(workers)
    /\ wk.phase = "wait"
    /\ UNCHANGED <<now, appVars>>
    /\ ser_open
    /\ rx_buf # <<>>
    /\ LET r == Head(rx_buf)
           k == Classify(r.text, wk.exp)
       IN
       /\ rx_buf' = Tail(rx_buf)
       /\ workers' = [workers EXCEPT ![w] =
            CASE k = "ignore" -> wk
              [] k = "err" -> [wk EXCEPT !.phase = "err", !.err = "ProtocolError",
                                         !.reply = r]
              [] k = "match" -> [wk EXCEPT !.phase = "ok", !.reply = r]
              [] k = "unexpected" ->
                    IF wk.seen + 1 >= max_lines
                    THEN [wk EXCEPT !.phase = "err", !.err = "TimeoutError",
                                    !.seen = wk.seen + 1]
                    ELSE [wk EXCEPT !.seen = wk.seen + 1]]
    /\ UNCHANGED <<ser_open, lock_owner, lock_waiters, call, dev_pending,
                   banners, faults>>
    /\ UNCHANGED tsVars

\* max_wait_s elapses with no match: raise TimeoutError
W_Timeout(w) ==
    /\ w <= Len(workers)
    /\ workers[w].phase = "wait"
    /\ UNCHANGED <<now, appVars>>
    /\ faults < MaxFaults
    /\ faults' = faults + 1
    /\ workers' = [workers EXCEPT ![w] =
                     [workers[w] EXCEPT !.phase = "err", !.err = "TimeoutError"]]
    /\ UNCHANGED <<ser_open, rx_buf, lock_owner, lock_waiters, call, dev_pending,
                   banners>>
    /\ UNCHANGED tsVars

(***************************************************************************)
(* The device: it answers each command it received, in order, at any later *)
(* time, with the success line of the verb or with an ERR line, and it may *)
(* emit banner lines in between                                            *)
(***************************************************************************)

\* the success line the firmware sends for a command
DeviceOkLine(line) == infer_expect_prefixes_upper(line)[1]

\* banner lines as the firmware prints them
DeviceBanners == { <<"o","k">> \o SP \o <<"r","e","a","d","y">>,
                   W.OK \o SP \o W.SERVO_PWR \o <<"?">> }

\* a line the device sends reaches the receive buffer of an open port and is
\* lost on a closed one
Received(text, cid) ==
    IF ser_open THEN Append(rx_buf, [text |-> text, cid |-> cid]) ELSE rx_buf

\* the device answers the oldest command it holds: with the success line, or
\* (within the fault bound) with an ERR line
DevReply ==
    /\ dev_pending # <<>>
    /\ \/ /\ rx_buf' = Received(DeviceOkLine(Head(dev_pending).line),
                                Head(dev_pending).cid)
          /\ UNCHANGED faults
       \/ /\ faults < MaxFaults
          /\ rx_buf' = Received(L.ERR, Head(dev_pending).cid)
          /\ faults' = faults + 1
    /\ dev_pending' = Tail(dev_pending)
    /\ UNCHANGED <<ser_open, lock_owner, lock_waiters, workers, call, banners>>
    /\ UNCHANGED <<now, appVars>>
    /\ UNCHANGED tsVars

DevBanner ==
    /\ ser_open
    /\ banners < MaxBanners
    /\ \E text \in DeviceBanners :
         rx_buf' = Append(rx_buf, [text |-> text, cid |-> 0])
    /\ banners' = banners + 1
    /\ UNCHANGED <<ser_open, lock_owner, lock_waiters, workers, call, dev_pending, faults>>
    /\ UNCHANGED <<now, appVars>>
    /\ UNCHANGED tsVars

(***************************************************************************)
(* REST handlers: POST /motor, POST /estop, POST /estop/reset              *)
(***************************************************************************)

\* _supported_commands_lower (and _supported_cmds_from_app, the same code for
\* the WS handler): none stands for the result None, cmds for the set
_supported_commands_lower ==
    LET cmds == device_info.supported_commands IN
    [none |-> cmds = <<>>,
     cmds |-> {Lower(Strip(cmds[i])) : i \in {j \in 1..Len(cmds) : Strip(cmds[j]) # <<>>}}]

\* a gate that lets every command through
ensure_supported_command_Off(commands) == TRUE

\* ensure_supported_command raises nothing (no 501) for the commands given
ensure_supported_command(commands) ==
    LET cmds == _supported_commands_lower
        missing == {i \in 1..Len(commands) :
                      /\ commands[i] # <<>>
                      /\ Lower(Strip(commands[i])) \notin cmds.cmds}
    IN cmds.none \/ missing = {}

\* _ws_require
_ws_require(required) ==
    LET cmds == _supported_commands_lower IN
    cmds.none \/ \A i \in 1..Len(required) : Lower(Strip(required[i])) \in cmds.cmds

\* speeds a client posts (MotorCommandIn.speed)
MotorSpeeds == {0, 100}

\* the HTTP status a handler maps the outcome of its send to
StatusOf(c) ==
    IF c.st = "ok" THEN 200
    ELSE IF c.err = "ProtocolError" THEN 400
    ELSE IF c.err = "TimeoutError" THEN 504
    ELSE 500

restUnchanged == UNCHANGED <<now, settings, device_info, fn, servo, ser_open, rx_buf, lock_owner, workers,
                             dev_pending, banners, faults, last_motor_ts,
                             last_servo_ts, last_any_actuator_ts, wd, ws>>

\* POST /motor: the ensure_not_estopped dependency, motor_body_supported
\* (ensure_supported_command on cmd.cmd), then send_cmd
MotorRequest ==
    /\ pc["motor"] = "idle"
    /\ reqs["motor"] < MaxReqs
    /\ reqs' = [reqs EXCEPT !["motor"] = @ + 1]
    /\ IF estop \/ ~ensure_supported_command(<<W.SetAEngine>>)
       THEN /\ outcome' = [outcome EXCEPT !["motor"] = IF estop THEN 423 ELSE 501]
            /\ UNCHANGED <<pc, call, lock_waiters>>
       ELSE /\ \E speed \in MotorSpeeds :
                 LET line == W.SetAEngine \o SP \o IntChars(speed) IN
                 Enter("motor", SendCmdFrame(line, infer_expect_prefixes_upper(line),
                                             TRUE, TRUE))
            /\ pc' = [pc EXCEPT !["motor"] = "send"]
            /\ UNCHANGED outcome
    /\ UNCHANGED estop
    /\ restUnchanged

MotorReturn ==
    /\ pc["motor"] = "send"
    /\ call["motor"].st \in {"ok", "err"}
    /\ outcome' = [outcome EXCEPT !["motor"] = StatusOf(call["motor"])]
    /\ call' = [call EXCEPT !["motor"] = IdleCall]
    /\ pc' = [pc EXCEPT !["motor"] = "idle"]
    /\ UNCHANGED <<estop, lock_waiters, reqs>>
    /\ restUnchanged

\* POST /estop up to its first await: set the latch, then send the stop batch
estop_on ==
    /\ pc["estop"] = "idle"
    /\ reqs["estop"] < MaxReqs
    /\ reqs' = [reqs EXCEPT !["estop"] = @ + 1]
    /\ IF ~settings.estop_enabled
       THEN /\ outcome' = [outcome EXCEPT !["estop"] = 404]
            /\ UNCHANGED <<estop, pc, call, lock_waiters>>
       ELSE /\ estop' = TRUE
            /\ Enter("estop", SendCmdsFrame(<<L.StopA, L.StopB>>, TRUE))
            /\ pc' = [pc EXCEPT !["estop"] = "stop"]
            /\ UNCHANGED outcome
    /\ restUnchanged

\* POST /estop: the stop batch returned or raised (swallowed); send "EStop"
estop_on_cmd ==
    /\ pc["estop"] = "stop"
    /\ call["estop"].st \in {"ok", "err"}
    /\ Enter("estop", SendCmdFrame(L.EStop, <<L.OK_ESTOP>>, FALSE, TRUE))
    /\ pc' = [pc EXCEPT !["estop"] = "cmd"]
    /\ UNCHANGED <<estop, outcome, reqs>>
    /\ restUnchanged

\* a trigger whose latch clears itself once the stop has been sent
estop_on_return_Clears ==
    /\ pc["estop"] = "cmd"
    /\ call["estop"].st \in {"ok", "err"}
    /\ outcome' = [outcome EXCEPT !["estop"] = 200]
    /\ call' = [call EXCEPT !["estop"] = IdleCall]
    /\ pc' = [pc EXCEPT !["estop"] = "idle"]
    /\ estop' = FALSE
    /\ UNCHANGED <<lock_waiters, reqs>>
    /\ restUnchanged

\* POST /estop: "EStop" returned or raised (swallowed); respond
estop_on_return ==
    /\ pc["estop"] = "cmd"
    /\ call["estop"].st \in {"ok", "err"}
    /\ outcome' = [outcome EXCEPT !["estop"] = 200]
    /\ call' = [call EXCEPT !["estop"] = IdleCall]
    /\ pc' = [pc EXCEPT !["estop"] = "idle"]
    /\ UNCHANGED <<estop, lock_waiters, reqs>>
    /\ restUnchanged

\* POST /estop/reset up to its await: clear the latch, then send "EStop RESET"
estop_reset ==
    /\ pc["reset"] = "idle"
    /\ reqs["reset"] < MaxReqs
    /\ reqs' = [reqs EXCEPT !["reset"] = @ + 1]
    /\ IF ~settings.estop_enabled
       THEN /\ outcome' = [outcome EXCEPT !["reset"] = 404]
            /\ UNCHANGED <<estop, pc, call, lock_waiters>>
       ELSE /\ estop' = FALSE
            /\ Enter("reset", SendCmdFrame(L.EStopReset, <<L.OK_ESTOP>>, FALSE, TRUE))
            /\ pc' = [pc EXCEPT !["reset"] = "cmd"]
            /\ UNCHANGED outcome
    /\ restUnchanged

estop_reset_return ==
    /\ pc["reset"] = "cmd"
    /\ call["reset"].st \in {"ok", "err"}
    /\ outcome' = [outcome EXCEPT !["reset"] = 200]
    /\ call' = [call EXCEPT !["reset"] = IdleCall]
    /\ pc' = [pc EXCEPT !["reset"] = "idle"]
    /\ UNCHANGED <<estop, lock_waiters, reqs>>
    /\ restUnchanged

(***************************************************************************)
(* Specification: the REST handlers on the channel                         *)
(***************************************************************************)

vars == <<now, settings, device_info, fn, servo, ser_open, rx_buf, lock_owner, lock_waiters, last_motor_ts,
          last_servo_ts, last_any_actuator_ts, workers, call, dev_pending,
          banners, faults, reqs, estop, pc, outcome, wd, ws>>

InitChanAt(t0, f) ==
    /\ now = t0
    /\ ser_open = FALSE
    /\ rx_buf = <<>>
    /\ lock_owner = NoTask
    /\ lock_waiters = <<>>
    /\ last_motor_ts = 0
    /\ last_servo_ts = 0
    /\ last_any_actuator_ts = 0
    /\ workers = <<>>
    /\ call = [t \in AllTasks |-> IdleCall]
    /\ dev_pending = <<>>
    /\ banners = 0
    /\ faults = f
    /\ reqs = [t \in AllTasks |-> 0]

\* the channel at time 1 of the clock
InitChanWith(f) == InitChanAt(1, f)

\* the channel after construction, with the whole fault budget ahead
InitChan == InitChanWith(0)

\* Settings as config.py defaults them, with the switches a specification
\* varies drawn from both values
DefaultSettings ==
    [estop_enabled |-> TRUE, watchdog_enabled |-> TRUE,
     watchdog_servo_safe_enabled |-> FALSE, ws_stop_on_close |-> TRUE,
     servo_slew_rate_dps |-> 0, servo_max_cmd_hz |-> 25,
     servo_rate_limit_mode |-> "reject", servo_safe_pose |-> <<>>]

\* no function is called on its own
NoCall == [name |-> "none", args |-> <<>>, done |-> FALSE, result |-> <<>>]

\* device_info without a command list: the probe is off, failed, or CAPS named
\* no commands (None and [] are both false in `if not cmds`)
NoDevice == [supported_commands |-> <<>>]

\* ServoRuntimeState() as _state creates it (three empty dicts), and the
\* locals of set_servo_deg: the id, the degrees asked for, the shaped target, the end of a rate-limit
\* sleep, and the retry_after_ms and Retry-After of the last 429
NoServo ==
    [last_deg |-> <<>>, last_update_ts |-> <<>>, last_cmd_ts |-> <<>>,
     id |-> 0, requested |-> 0, target |-> 0, wake |-> 0, retry_ms |-> 0,
     retry_after_s |-> 0]

\* the locals of watchdog_loop before its first tick; t is the `now` of the
\* current round, wake the end of the current sleep; stop_for records the
\* last_motor_ts the last motor stop was issued for
InitWd == [motor_applied |-> FALSE, servo_applied |-> FALSE, t |-> 0,
           wake |-> 1 + WatchdogTick, stop_for |-> 0]

NoData == [x |-> 0, y |-> 0, deadzone |-> 0, scale2 |-> 0]

\* no WS session: the locals of ws_joystick as it initialises them.  data and
\* target_seq are the sender's snapshot, sent_once tells last_send from its
\* initial 0.0, final_stop records what the closing safe_stop did, frame is the
\* last frame the sender handed to send_json
NoSession ==
    [sock |-> "none", latest |-> NoData, latest_seq |-> 0, sent_seq |-> 0,
     event |-> FALSE, estop_stop_sent |-> FALSE, data |-> NoData,
     target_seq |-> 0, sent_once |-> FALSE, final_stop |-> "none",
     frame |-> [type |-> "none", seq |-> 0]]

InitApp ==
    /\ estop = FALSE
    /\ pc = [t \in AllTasks |-> IF t = "wd" THEN "sleep" ELSE "idle"]
    /\ outcome = [t \in AllTasks |-> 0]
    /\ wd = InitWd
    /\ ws = NoSession
    /\ servo = NoServo
    /\ device_info = NoDevice
    /\ fn = NoCall

Init ==
    /\ InitChan
    /\ InitApp
    /\ settings \in {[DefaultSettings EXCEPT !.estop_enabled = e] : e \in BOOLEAN}

Next ==
    \/ MotorRequest
    \/ MotorReturn
    \/ estop_on
    \/ estop_on_cmd
    \/ estop_on_return
    \/ estop_reset
    \/ estop_reset_return
    \/ \E t \in RestTasks : ChanBegin(t)
    \/ \E t \in RestTasks : ChanResume(t)
    \/ \E w \in WorkerIds : W_Send(w)
    \/ \E w \in WorkerIds : W_Read(w)
    \/ \E w \in WorkerIds : W_Timeout(w)
    \/ DevReply
    \/ DevBanner

Spec == Init /\ [][Next]_vars

(***************************************************************************)
(* Properties of the channel under the REST handlers                       *)
(***************************************************************************)

\* C2: the reply a send call returns is the line the device produced for that
\* very command, never a line produced for an earlier one
C2_ReplyIsForOwnCommand ==
    \A w \in Workers :
        workers[w].phase = "ok" => workers[w].reply.cid = w

\* C4: whenever send_cmd or send_cmds raises, for every caller, the link is
\* Disconnected with an empty receive buffer when the lock is released
C4_ErrorClosesLink ==
    [][\A t \in AllTasks :
          (call[t].st = "await" /\ call'[t].st = "err")
             => (~ser_open' /\ rx_buf' = <<>>)]_vars

\* the lines of the motor stop batch
StopLines == {L.StopA, L.StopB}

\* the tasks that serve actuation requests
ActuationTasks == {"motor"}

\* C5: while the latch is set, no actuation request writes a non-stop command
\* to the wire, whatever the interleaving of the trigger with admitted requests
C5_NoActuationWriteWhileEstop ==
    \A w \in Workers :
        (workers[w].task \in ActuationTasks /\ workers[w].sent # NoLine
            /\ workers[w].wr_estop)
           => workers[w].sent \in StopLines

\* C6: the latch becomes true only in the trigger and false only in the reset;
\* no other step changes it, and with the latch clear a motor request is
\* dispatched to the channel
C6_LatchOnlyByTriggerAndReset ==
    [][/\ (estop' # estop) =>
             \/ (estop' /\ pc["estop"] = "idle" /\ pc'["estop"] = "stop")
             \/ (~estop' /\ pc["reset"] = "idle" /\ pc'["reset"] = "cmd")
       /\ (~estop /\ pc["motor"] = "idle" /\ reqs'["motor"] # reqs["motor"])
             => (pc'["motor"] = "send" /\ call'["motor"].st = "wait_lock")]_vars

\* C6 witness: the latch was set and reset, the reset has returned, and a motor
\* command of a request queued behind the reset is on the wire
C6_Witness ==
    /\ settings.estop_enabled
    /\ reqs["estop"] = 1 /\ ~estop
    /\ outcome["reset"] = 200
    /\ call["motor"].st = "await"
    /\ workers[call["motor"].wid].phase = "wait"
    /\ workers[call["motor"].wid].sent = W.SetAEngine \o SP \o IntChars(100)

\* C8: a command that fails leaves last_motor_ts and last_servo_ts as they were
\* when it was issued
C8_FailedCommandLeavesTimestamps ==
    \A w \in Workers :
        workers[w].phase = "err"
           => <<last_motor_ts, last_servo_ts>> = workers[w].ts0

(***************************************************************************)
(* Specification: one caller of send_cmd against a scripted device that    *)
(* emits any lines, banners included, in any order                         *)
(***************************************************************************)

\* (line, expect_prefixes_upper) of the send_cmd calls drawn: the health PING,
\* the servo power query, a motor command and an unknown verb with the prefixes
\* inferred (<<>> stands for None)
CallerCommands ==
    { <<L.PING, <<L.OK_PONG>>>>,
      <<L.ServoPwrQ, <<W.OK \o SP \o W.SERVO_PWR>>>>,
      <<W.SetAEngine \o SP \o IntChars(100), <<>>>>,
      <<L.FWVER, <<>>>> }

\* lines the scripted device can emit: one line under each ignored prefix (in
\* the firmware's spellings), replies, an error
ScriptedLines ==
    { W.OK \o SP \o W.READY,
      <<"o","k">> \o SP \o <<"r","e","a","d","y">>,
      W.OK \o SP \o W.PINS \o SP \o IntChars(1),
      W.OK \o SP \o W.CMDS,
      W.OK \o SP \o W.SERVO_PWR \o <<"?">> \o SP \o IntChars(1),
      W.OK \o SP \o W.START,
      W.OK \o SP \o W.PONG,
      W.OK \o SP \o W.SERVO_PWR \o SP \o IntChars(1),
      W.OK,
      L.ERR }

IsBanner(text) == AnyPrefix(Upper(text), IGNORE_LINE_PREFIXES_UPPER)

\* a caller's send_cmd(line, expect_prefixes_upper)
CallerRequest ==
    /\ pc["caller"] = "idle"
    /\ reqs["caller"] < MaxReqs
    /\ reqs' = [reqs EXCEPT !["caller"] = @ + 1]
    /\ \E c \in CallerCommands : Enter("caller", SendCmdFrame(c[1], c[2], TRUE, TRUE))
    /\ pc' = [pc EXCEPT !["caller"] = "send"]
    /\ UNCHANGED <<estop, outcome>>
    /\ restUnchanged

CallerReturn ==
    /\ pc["caller"] = "send"
    /\ call["caller"].st \in {"ok", "err"}
    /\ outcome' = [outcome EXCEPT !["caller"] = StatusOf(call["caller"])]
    /\ call' = [call EXCEPT !["caller"] = IdleCall]
    /\ pc' = [pc EXCEPT !["caller"] = "idle"]
    /\ UNCHANGED <<estop, lock_waiters, reqs>>
    /\ restUnchanged

\* the scripted device emits a line
ScriptedEmit ==
    /\ ser_open
    /\ banners < MaxLines
    /\ \E text \in ScriptedLines :
         rx_buf' = Append(rx_buf, [text |-> text, cid |-> 0])
    /\ banners' = banners + 1
    /\ UNCHANGED <<ser_open, lock_owner, lock_waiters, workers, call, dev_pending, faults>>
    /\ UNCHANGED <<now, appVars>>
    /\ UNCHANGED tsVars

NextWait ==
    \/ CallerRequest
    \/ CallerReturn
    \/ ChanBegin("caller")
    \/ ChanResume("caller")
    \/ \E w \in WorkerIds : W_Send(w)
    \/ \E w \in WorkerIds : W_Read(w)
    \/ \E w \in WorkerIds : W_Timeout(w)
    \/ ScriptedEmit

SpecWait == Init /\ [][NextWait]_vars

\* C3: a received line under an ignored prefix is never the line a send returns
\* and never the line an error is raised for, whatever the command and the
\* expected prefixes; PING with the prefix OK PONG returns only OK PONG
C3_BannerNeverReplyNorError ==
    \A w \in Workers :
        /\ ~IsBanner(workers[w].reply.text)
        /\ (workers[w].phase = "err" /\ workers[w].err = "ProtocolError")
              => StartsWith(Upper(workers[w].reply.text), W.ERR)
        /\ (workers[w].phase = "ok" /\ workers[w].sent = L.PING)
              => workers[w].reply.text = W.OK \o SP \o W.PONG

\* C3 witness: the device emitted a banner line and then "OK PONG"; PING read
\* both, counted no unexpected line, and returned "OK PONG"
C3_Witness ==
    \E w \in Workers :
        /\ workers[w].sent = L.PING
        /\ workers[w].phase = "ok"
        /\ workers[w].reply.text = W.OK \o SP \o W.PONG
        /\ workers[w].seen = 0
        /\ banners = 2 /\ rx_buf = <<>> /\ faults = 0

(***************************************************************************)
(* POST /joystick and process_joystick                                     *)
(***************************************************************************)

clamp(v, lo, hi) == IF v < lo THEN lo ELSE IF v > hi THEN hi ELSE v

Abs(v) == IF v < 0 THEN 0 - v ELSE v

\* a dead zone that takes its boundary in
deadzone_Inclusive(v, dz) == IF Abs(v) <= dz THEN 0 ELSE v

deadzone(v, dz) == IF Abs(v) < dz THEN 0 ELSE v

\* a mix that hands the two sides over the wrong way round
mix_tank_Swapped(x, y) == <<clamp(y - x, -255, 255), clamp(y + x, -255, 255)>>

\* a mix without the clamp
mix_tank_Unclamped(x, y) == <<y + x, y - x>>

mix_tank(x, y) == <<clamp(y + x, -255, 255), clamp(y - x, -255, 255)>>

\* int(round(v * scale)) for scale = scale2 / 2: round() takes a half to the
\* even neighbour
ScaleRound(v, scale2) ==
    LET n == v * scale2
        lo == n \div 2
    IN IF n % 2 = 0 THEN lo
       ELSE IF lo % 2 = 0 THEN lo ELSE lo + 1

\* the two lines process_joystick sends for a JoystickIn
JoystickLines(data) ==
    LET x == ScaleRound(deadzone(data.x, data.deadzone), data.scale2)
        y == ScaleRound(deadzone(data.y, data.deadzone), data.scale2)
        ab == mix_tank(x, y)
    IN << W.SetAEngine \o SP \o IntChars(ab[1]),
          W.SetBEngine \o SP \o IntChars(ab[2]) >>

\* the JoystickIn bodies a client posts: full throttle, and a stick inside the
\* dead zone
JoyInputs ==
    { [x |-> 0, y |-> 100, deadzone |-> 20, scale2 |-> 2],
      [x |-> 5, y |-> 10, deadzone |-> 20, scale2 |-> 2] }

\* POST /joystick: the ensure_not_estopped dependency, joystick_body_supported
\* (ensure_supported_command), then process_joystick up to its send_cmds
JoystickRequest ==
    /\ pc["joy"] = "idle"
    /\ reqs["joy"] < MaxReqs
    /\ reqs' = [reqs EXCEPT !["joy"] = @ + 1]
    /\ IF estop \/ ~ensure_supported_command(<<W.SetAEngine, W.SetBEngine>>)
       THEN /\ outcome' = [outcome EXCEPT !["joy"] = IF estop THEN 423 ELSE 501]
            /\ UNCHANGED <<pc, call, lock_waiters>>
       ELSE /\ \E data \in JoyInputs :
                 Enter("joy", SendCmdsFrame(JoystickLines(data), TRUE))
            /\ pc' = [pc EXCEPT !["joy"] = "send"]
            /\ UNCHANGED outcome
    /\ UNCHANGED estop
    /\ restUnchanged

\* the HTTP status POST /joystick maps the outcome of process_joystick to
JoystickStatusOf(c) ==
    IF c.st = "ok" THEN 200
    ELSE IF c.err = "ProtocolError" THEN 400
    ELSE IF c.err = "TimeoutError" THEN 504
    ELSE IF c.err = "SerialException" THEN 503
    ELSE 500

JoystickReturn ==
    /\ pc["joy"] = "send"
    /\ call["joy"].st \in {"ok", "err"}
    /\ outcome' = [outcome EXCEPT !["joy"] = JoystickStatusOf(call["joy"])]
    /\ call' = [call EXCEPT !["joy"] = IdleCall]
    /\ pc' = [pc EXCEPT !["joy"] = "idle"]
    /\ UNCHANGED <<estop, lock_waiters, reqs>>
    /\ restUnchanged

(***************************************************************************)
(* watchdog_loop                                                           *)
(***************************************************************************)

wdUnchanged == UNCHANGED <<now, settings, device_info, fn, servo, ser_open, rx_buf, lock_owner, workers,
                           dev_pending, banners, faults, last_motor_ts,
                           last_servo_ts, last_any_actuator_ts, reqs, estop,
                           outcome, ws>>

servo_count == 5
servo_center_deg == 90

\* dict.get(k, default)
Get(d, k, default) == IF k \in DOMAIN d THEN d[k] ELSE default

\* safe-pose lines that take every degree from servo_safe_pose
ServoSafeLines_NoCenter ==
    [sid \in 1..servo_count |->
        W.SetServo \o SP \o IntChars(sid) \o SP \o
            IntChars(IF sid \in DOMAIN settings.servo_safe_pose
                     THEN settings.servo_safe_pose[sid] ELSE 0)]

\* the lines of _try_servo_safe_pose: the safe pose of each id, the centre
\* for an id servo_safe_pose does not name
ServoSafeLines ==
    [sid \in 1..servo_count |->
        W.SetServo \o SP \o IntChars(sid) \o SP \o
            IntChars(Get(settings.servo_safe_pose, sid, servo_center_deg))]

\* the motor idle test of one round, on the round's `now`
MotorIdleAt(t) ==
    MotorIdle > 0 /\ last_motor_ts > 0 /\ (t - last_motor_ts) >= MotorIdle

ServoIdleAt(t) ==
    ServoIdle > 0 /\ last_servo_ts > 0 /\ (t - last_servo_ts) >= ServoIdle

\* a servo part whose safe-pose batch marks the activity
WdServoPart_Marks(w1, c1) ==
    IF /\ settings.watchdog_servo_safe_enabled
       /\ ServoIdleAt(w1.t)
       /\ ~w1.servo_applied
       /\ ~estop
    THEN /\ call' = [c1 EXCEPT !["wd"] = SendCmdsFrame(ServoSafeLines, TRUE)]
         /\ lock_waiters' = Append(lock_waiters, "wd")
         /\ pc' = [pc EXCEPT !["wd"] = "servo"]
         /\ wd' = w1
    ELSE /\ call' = c1
         /\ UNCHANGED lock_waiters
         /\ pc' = [pc EXCEPT !["wd"] = "sleep"]
         /\ wd' = [w1 EXCEPT
                      !.servo_applied =
                          IF ~settings.watchdog_servo_safe_enabled THEN @
                          ELSE ServoIdleAt(w1.t),
                      !.wake = now + WatchdogTick]

\* the rest of a round after its motor part, with the locals w1 and the
\* activations c1: the servo part up to its await, or on to the next sleep
WdServoPart(w1, c1) ==
    IF /\ settings.watchdog_servo_safe_enabled
       /\ ServoIdleAt(w1.t)
       /\ ~w1.servo_applied
       /\ ~estop
    THEN /\ call' = [c1 EXCEPT !["wd"] = SendCmdsFrame(ServoSafeLines, FALSE)]
         /\ lock_waiters' = Append(lock_waiters, "wd")
         /\ pc' = [pc EXCEPT !["wd"] = "servo"]
         /\ wd' = w1
    ELSE /\ call' = c1
         /\ UNCHANGED lock_waiters
         /\ pc' = [pc EXCEPT !["wd"] = "sleep"]
         /\ wd' = [w1 EXCEPT
                      !.servo_applied =
                          IF ~settings.watchdog_servo_safe_enabled THEN @
                          ELSE ServoIdleAt(w1.t),
                      !.wake = now + WatchdogTick]

\* app.state.serial_mgr is set: the lifespan starts the watchdog before it
\* builds the SerialManager, and pc["life"] is "boot" between the two
serial_mgr_present == pc["life"] # "boot"

\* one round of the loop from the end of its sleep to its first await
WdTick ==
    /\ pc["wd"] = "sleep"
    /\ now >= wd.wake
    /\ IF ~settings.watchdog_enabled \/ ~serial_mgr_present
       THEN /\ wd' = [wd EXCEPT !.wake = now + WatchdogTick]
            /\ UNCHANGED <<pc, call, lock_waiters>>
       ELSE IF MotorIdleAt(now) /\ ~wd.motor_applied
       THEN \* _try_stop_motors
            /\ Enter("wd", SendCmdsFrame(<<L.StopA, L.StopB>>, FALSE))
            /\ pc' = [pc EXCEPT !["wd"] = "stop"]
            /\ wd' = [wd EXCEPT !.t = now, !.stop_for = last_motor_ts]
       ELSE WdServoPart([wd EXCEPT !.t = now,
                                   !.motor_applied = MotorIdleAt(now) /\ @],
                        call)
    /\ wdUnchanged

\* a watchdog that lets the failure of its stop batch out of the loop
WdStopDone_Raises ==
    /\ pc["wd"] = "stop"
    /\ call["wd"].st \in {"ok", "err"}
    /\ IF call["wd"].st = "err"
       THEN /\ pc' = [pc EXCEPT !["wd"] = "failed"]
            /\ call' = [call EXCEPT !["wd"] = IdleCall]
            /\ UNCHANGED <<wd, lock_waiters>>
       ELSE WdServoPart([wd EXCEPT !.motor_applied = TRUE],
                        [call EXCEPT !["wd"] = IdleCall])
    /\ wdUnchanged

\* _try_stop_motors returned: motor_applied = ok or True
WdStopDone ==
    /\ pc["wd"] = "stop"
    /\ call["wd"].st \in {"ok", "err"}
    /\ WdServoPart([wd EXCEPT !.motor_applied = TRUE],
                   [call EXCEPT !["wd"] = IdleCall])
    /\ wdUnchanged

\* _try_servo_safe_pose returned: servo_applied = ok or True
WdServoDone ==
    /\ pc["wd"] = "servo"
    /\ call["wd"].st \in {"ok", "err"}
    /\ call' = [call EXCEPT !["wd"] = IdleCall]
    /\ pc' = [pc EXCEPT !["wd"] = "sleep"]
    /\ wd' = [wd EXCEPT !.servo_applied = TRUE, !.wake = now + WatchdogTick]
    /\ UNCHANGED lock_waiters
    /\ wdUnchanged

(***************************************************************************)
(* Specification: the watchdog and POST /joystick on a clock               *)
(***************************************************************************)

WdTasks == {"joy", "wd"}

\* a step the event loop or a worker thread takes without waiting
Prompt ==
    \/ \E t \in AllTasks :
          /\ call[t].st = "await"
          /\ workers[call[t].wid].phase \in {"ok", "err"}
    \/ lock_owner = NoTask /\ lock_waiters # <<>>
    \/ \E t \in AllTasks : pc[t] # "idle" /\ call[t].st \in {"ok", "err"}
    \/ \E w \in Workers : workers[w].phase = "start" /\ ser_open
    \/ \E w \in Workers : workers[w].phase = "wait" /\ ser_open /\ rx_buf # <<>>

\* the clock advances: not past the end of the watchdog's sleep, not past the
\* deadline of a reply wait, and not while a step is due without waiting
TimePassesBefore(limit) ==
    /\ now < limit
    /\ ~Prompt
    /\ pc["wd"] = "sleep" => now < wd.wake
    /\ \A w \in Workers : workers[w].phase = "wait" => now < workers[w].deadline
    /\ now' = now + 1
    /\ UNCHANGED <<chanVars, appVars>>
    /\ UNCHANGED tsVars

\* the clock of a behaviour that ends at MaxTime
TimePasses == TimePassesBefore(MaxTime)

\* max_wait_s has elapsed with no match: raise TimeoutError
W_TimeoutAt(w) ==
    /\ w <= Len(workers)
    /\ now >= workers[w].deadline
    /\ W_Timeout(w)

InitTimed ==
    /\ InitChan
    /\ InitApp
    /\ settings \in {[DefaultSettings EXCEPT !.watchdog_enabled = e] : e \in BOOLEAN}

NextWd ==
    \/ JoystickRequest
    \/ JoystickReturn
    \/ WdTick
    \/ WdStopDone
    \/ \E t \in WdTasks : ChanBegin(t)
    \/ \E t \in WdTasks : ChanResume(t)
    \/ \E w \in WorkerIds : W_Send(w)
    \/ \E w \in WorkerIds : W_Read(w)
    \/ \E w \in WorkerIds : W_TimeoutAt(w)
    \/ DevReply
    \/ DevBanner
    \/ TimePasses

SpecWd == InitTimed /\ [][NextWd]_vars

\* C7: each motor idle episode gets the stop batch exactly once: a round that
\* finds the motors idle leaves the stop issued for this episode (the one
\* that began with the current last_motor_ts), and issues it only if it has
\* not been issued for this episode before
C7_OneStopPerIdleEpisode ==
    [][(WdTick /\ settings.watchdog_enabled /\ MotorIdleAt(now))
          => /\ wd'.stop_for = last_motor_ts
             /\ (pc'["wd"] = "stop") => (wd.stop_for # last_motor_ts)]_vars

(***************************************************************************)
(* Cancellation of a task inside send_cmd / send_cmds                      *)
(***************************************************************************)

\* what becomes of the worker of a cancelled call: a thread that runs keeps
\* running; a thread that has not started is dropped or starts all the same
Orphaned(wk) ==
    IF wk.phase = "start" THEN {wk, GoneWorker} ELSE {wk}

\* CancelledError reaches task t at its await in send_cmd / send_cmds: it is
\* no Exception, so close() is skipped; `async with` releases the lock, or the
\* task leaves the queue of the lock
ChanCancel(t) ==
    LET c == call[t] IN
    /\ call' = [call EXCEPT ![t] = IdleCall]
    /\ IF c.st = "await"
       THEN /\ lock_owner' = NoTask
            /\ \E o \in Orphaned(workers[c.wid]) :
                  workers' = [workers EXCEPT ![c.wid] = o]
            /\ UNCHANGED lock_waiters
       ELSE /\ lock_waiters' = SelectSeq(lock_waiters, LAMBDA u : u # t)
            /\ UNCHANGED <<lock_owner, workers>>
    /\ UNCHANGED <<ser_open, rx_buf, dev_pending, banners, faults>>
    /\ UNCHANGED tsVars

\* _readline_buffered_sync on a link another caller has closed:
\* RuntimeError("Serial not connected")
W_Lost(w) ==
    /\ w <= Len(workers)
    /\ workers[w].phase = "wait"
    /\ ~ser_open
    /\ workers' = [workers EXCEPT ![w] =
                     [workers[w] EXCEPT !.phase = "err", !.err = "RuntimeError"]]
    /\ UNCHANGED <<ser_open, rx_buf, lock_owner, lock_waiters, call, dev_pending,
                   banners, faults>>
    /\ UNCHANGED <<now, appVars>>
    /\ UNCHANGED tsVars

(***************************************************************************)
(* /ws/joystick: ws_joystick with receiver_loop, sender_loop, ping_loop    *)
(***************************************************************************)

wsUnchanged == UNCHANGED <<now, settings, device_info, fn, servo, ser_open, rx_buf, dev_pending, banners,
                           faults, last_motor_ts, last_servo_ts,
                           last_any_actuator_ts, estop, outcome, wd>>

chanIdle == UNCHANGED <<lock_owner, lock_waiters, workers, call>>

WsActivities == {"recv", "sender", "ping"}

\* ws_joystick from accept() to its asyncio.wait: the three activities are
\* created and the hello frame is sent; when _ws_require fails the handler
\* accepts, sends the error frame (status 501), closes with 1008 and returns
ws_joystick ==
    /\ pc["ws"] = "idle"
    /\ reqs["ws"] < MaxReqs
    /\ reqs' = [reqs EXCEPT !["ws"] = @ + 1]
    /\ IF ~_ws_require(<<W.SetAEngine, W.SetBEngine>>)
       THEN /\ ws' = [NoSession EXCEPT !.sock = "closed",
                                       !.frame = [type |-> "error_501", seq |-> 0]]
            /\ pc' = [pc EXCEPT !["ws"] = "unsupported"]
       ELSE /\ ws' = [NoSession EXCEPT !.sock = "open"]
            /\ pc' = [pc EXCEPT !["ws"] = "wait", !["recv"] = "receive",
                                !["sender"] = "wait_event", !["ping"] = "sleep"]
    /\ chanIdle
    /\ wsUnchanged

\* the client goes away
ClientDisconnect ==
    /\ ws.sock = "open"
    /\ ws' = [ws EXCEPT !.sock = "closed"]
    /\ UNCHANGED <<pc, reqs>>
    /\ chanIdle
    /\ wsUnchanged

\* receiver_loop: a joystick frame arrives and replaces the latest sample
receiver_loop ==
    /\ pc["recv"] = "receive"
    /\ ws.sock = "open"
    /\ ws.latest_seq < MaxSamples
    /\ \E data \in JoyInputs :
         ws' = [ws EXCEPT !.latest = data, !.latest_seq = @ + 1, !.event = TRUE]
    /\ UNCHANGED <<pc, reqs>>
    /\ chanIdle
    /\ wsUnchanged

\* a receiver that stays blocked on a closed socket
receiver_loop_hangs ==
    /\ pc["recv"] = "receive"
    /\ ws.sock = "closed"
    /\ UNCHANGED vars

\* receiver_loop: receive_json() on a closed socket raises WebSocketDisconnect
receiver_loop_raise ==
    /\ pc["recv"] = "receive"
    /\ ws.sock = "closed"
    /\ pc' = [pc EXCEPT !["recv"] = "raised"]
    /\ UNCHANGED <<ws, reqs>>
    /\ chanIdle
    /\ wsUnchanged

\* ping_loop after a sleep: the client has been silent for too long (the clock
\* is not part of this specification: either answer of the test is possible)
\* and the socket is closed, or a ping frame is sent, which ends the loop when
\* it fails
ping_loop ==
    /\ pc["ping"] = "sleep"
    /\ \E idle_too_long \in BOOLEAN :
         IF idle_too_long
         THEN /\ ws' = [ws EXCEPT !.sock = "closed"]
              /\ pc' = [pc EXCEPT !["ping"] = "done"]
         ELSE /\ pc' = [pc EXCEPT !["ping"] =
                           IF ws.sock = "closed" THEN "done" ELSE "sleep"]
              /\ UNCHANGED ws
    /\ UNCHANGED reqs
    /\ chanIdle
    /\ wsUnchanged

\* safe_stop(reason) called by task t, with the places p1 of the tasks and the
\* locals w1, up to its await; a stop that is switched off returns at once, to
\* the place pc_skip
safe_stop(t, p1, w1, pc_wait, pc_skip) ==
    IF settings.ws_stop_on_close
    THEN /\ Enter(t, SendCmdsFrame(<<L.StopA, L.StopB>>, TRUE))
         /\ pc' = [p1 EXCEPT ![t] = pc_wait]
         /\ ws' = w1
    ELSE /\ pc' = [p1 EXCEPT ![t] = pc_skip]
         /\ ws' = [w1 EXCEPT !.final_stop = IF t = "ws" THEN "skipped" ELSE @]
         /\ UNCHANGED <<call, lock_waiters>>

\* a session that never sees the latch
is_estopped_Never == FALSE

\* is_estopped(): the latch as the session reads it
is_estopped == estop

\* where sender_loop goes after send_json: on a closed socket send_json raises
\* and the loop returns
AfterFrame == IF ws.sock = "closed" THEN "done" ELSE "loop"

\* sender_loop, E-STOP branch after its stop (locals w1): the sample counts as
\* sent and the estop frame (status 423, seq = sent_seq) goes to the client
EstopNotified(w1) ==
    [w1 EXCEPT !.sent_seq = w1.target_seq, !.sent_once = TRUE,
               !.frame = [type |-> "estop_423", seq |-> w1.target_seq]]

\* sender_loop with the snapshot taken (locals w1): the E-STOP branch or
\* process_joystick, up to the await (of send_cmds or of send_json)
SenderDispatch(w1) ==
    IF is_estopped
    THEN IF ~w1.estop_stop_sent /\ settings.ws_stop_on_close
         THEN safe_stop("sender", pc, [w1 EXCEPT !.estop_stop_sent = TRUE],
                        "estop_stop", "estop_stop")
         ELSE /\ pc' = [pc EXCEPT !["sender"] = AfterFrame]
              /\ ws' = EstopNotified([w1 EXCEPT !.estop_stop_sent = TRUE])
              /\ UNCHANGED <<call, lock_waiters>>
    ELSE /\ Enter("sender", SendCmdsFrame(JoystickLines(w1.data), TRUE))
         /\ pc' = [pc EXCEPT !["sender"] = "send"]
         /\ ws' = [w1 EXCEPT !.estop_stop_sent = FALSE]

\* the top of the inner loop of sender_loop (locals w1): nothing new, or the
\* snapshot of the latest sample, then the rate-limit sleep or the dispatch.
\* dt < min_interval can hold only once last_send has been set
SenderTop(w1) ==
    IF w1.latest = NoData \/ w1.sent_seq = w1.latest_seq
    THEN /\ pc' = [pc EXCEPT !["sender"] = "wait_event"]
         /\ ws' = w1
         /\ UNCHANGED <<call, lock_waiters>>
    ELSE LET w2 == [w1 EXCEPT !.data = w1.latest, !.target_seq = w1.latest_seq] IN
         \/ /\ w1.sent_once
            /\ pc' = [pc EXCEPT !["sender"] = "rate_sleep"]
            /\ ws' = w2
            /\ UNCHANGED <<call, lock_waiters>>
         \/ SenderDispatch(w2)

\* sender_loop: new_data_event is set
sender_loop_wake ==
    /\ pc["sender"] = "wait_event"
    /\ ws.event
    /\ SenderTop([ws EXCEPT !.event = FALSE])
    /\ UNCHANGED <<lock_owner, workers, reqs>>
    /\ wsUnchanged

\* sender_loop: the rate-limit sleep is over
sender_loop_slept ==
    /\ pc["sender"] = "rate_sleep"
    /\ SenderDispatch(ws)
    /\ UNCHANGED <<lock_owner, workers, reqs>>
    /\ wsUnchanged

\* sender_loop: a frame has been sent to the client; the inner loop goes round
sender_loop_next ==
    /\ pc["sender"] = "loop"
    /\ SenderTop(ws)
    /\ UNCHANGED <<lock_owner, workers, reqs>>
    /\ wsUnchanged

\* sender_loop: the stop of the E-STOP branch has returned (its failure is
\* swallowed by safe_stop); the estop frame goes to the client
sender_loop_estop_stopped ==
    /\ pc["sender"] = "estop_stop"
    /\ call["sender"].st \in {"ok", "err"}
    /\ call' = [call EXCEPT !["sender"] = IdleCall]
    /\ ws' = EstopNotified(ws)
    /\ pc' = [pc EXCEPT !["sender"] = AfterFrame]
    /\ UNCHANGED <<lock_owner, lock_waiters, workers, reqs>>
    /\ wsUnchanged

\* sender_loop: process_joystick returned (joy_ack) or raised (error frame)
sender_loop_sent ==
    /\ pc["sender"] = "send"
    /\ call["sender"].st \in {"ok", "err"}
    /\ call' = [call EXCEPT !["sender"] = IdleCall]
    /\ ws' = IF call["sender"].st = "ok"
             THEN [ws EXCEPT !.sent_seq = ws.target_seq, !.sent_once = TRUE,
                             !.frame = [type |-> "joy_ack", seq |-> ws.target_seq]]
             ELSE [ws EXCEPT !.frame = [type |-> "error_500", seq |-> 0]]
    /\ pc' = [pc EXCEPT !["sender"] = AfterFrame]
    /\ UNCHANGED <<lock_owner, lock_waiters, workers, reqs>>
    /\ wsUnchanged

\* an ending that cancels nothing
Cancelled_Nothing(t, p) == p

\* Task.cancel() on an activity: one that has ended stays as it is, the sender
\* inside send_cmds gets its CancelledError when it next runs
Cancelled(t, p) ==
    IF p \in {"done", "raised"} THEN p
    ELSE IF t = "sender" /\ p \in {"send", "estop_stop"} THEN "cancelling"
    ELSE "cancelled"

\* ws_joystick: asyncio.wait returns on the first activity that raised; the
\* others are cancelled and the closing safe_stop runs up to its await
ws_joystick_finally ==
    /\ pc["ws"] = "wait"
    /\ \/ \E t \in WsActivities : pc[t] = "raised"
       \/ \A t \in WsActivities : pc[t] = "done"
    /\ LET p1 == [t \in AllTasks |->
                     IF t \in WsActivities THEN Cancelled(t, pc[t]) ELSE pc[t]]
       IN safe_stop("ws", p1, ws, "stop", "returned")
    /\ UNCHANGED <<lock_owner, workers, reqs>>
    /\ wsUnchanged

\* the cancelled sender runs: CancelledError leaves send_cmds and the task ends
sender_loop_cancelled ==
    /\ pc["sender"] = "cancelling"
    /\ ChanCancel("sender")
    /\ pc' = [pc EXCEPT !["sender"] = "cancelled"]
    /\ UNCHANGED <<now, settings, device_info, fn, servo, reqs, estop, outcome, wd, ws>>

\* ws_joystick: the closing safe_stop returned (its failure is swallowed) and
\* the handler returns
ws_joystick_return ==
    /\ pc["ws"] = "stop"
    /\ call["ws"].st \in {"ok", "err"}
    /\ call' = [call EXCEPT !["ws"] = IdleCall]
    /\ ws' = [ws EXCEPT !.final_stop = IF call["ws"].st = "ok" THEN "ok" ELSE "failed"]
    /\ pc' = [pc EXCEPT !["ws"] = "returned"]
    /\ UNCHANGED <<lock_owner, lock_waiters, workers, reqs>>
    /\ wsUnchanged

(***************************************************************************)
(* Specification: one WS joystick session on the channel                   *)
(***************************************************************************)

WsTasks == {"ws", "sender"}

InitWs ==
    /\ InitChan
    /\ InitApp
    /\ settings \in {[DefaultSettings EXCEPT !.ws_stop_on_close = e] : e \in BOOLEAN}

NextWs ==
    \/ ws_joystick
    \/ ClientDisconnect
    \/ receiver_loop
    \/ receiver_loop_raise
    \/ ping_loop
    \/ sender_loop_wake
    \/ sender_loop_slept
    \/ sender_loop_next
    \/ sender_loop_sent
    \/ sender_loop_cancelled
    \/ ws_joystick_finally
    \/ ws_joystick_return
    \/ \E t \in WsTasks : ChanBegin(t)
    \/ \E t \in WsTasks : ChanResume(t)
    \/ \E w \in WorkerIds : W_Send(w)
    \/ \E w \in WorkerIds : W_Read(w)
    \/ \E w \in WorkerIds : W_Timeout(w)
    \/ \E w \in WorkerIds : W_Lost(w)
    \/ DevReply

SpecWs == InitWs /\ [][NextWs]_vars

\* C1: at most one command exchange is in progress on the transport: no worker
\* has written while the worker of an earlier exchange is still waiting
C1_OneExchangeInProgress ==
    Cardinality({w \in Workers : workers[w].phase = "wait"}) <= 1

\* C9: the sample the sender hands to process_joystick is the newest one
\* received so far; the acknowledged sequence numbers grow strictly and
\* sent_seq <= latest_seq
C9_NeverForwardsSuperseded ==
    [][/\ (call["sender"].st # "wait_lock" /\ call'["sender"].st = "wait_lock"
             /\ pc'["sender"] = "send")
          => ws'.target_seq = ws'.latest_seq
       /\ (ws'.sent_seq # ws.sent_seq) => ws'.sent_seq > ws.sent_seq
       /\ ws'.sent_seq <= ws'.latest_seq]_vars

\* C10 as stated: when the handler returns, the stop batch has been attempted
\* under every configuration
C10_StopAttemptedUnconditionally ==
    pc["ws"] = "returned"
       => /\ \A t \in WsActivities : pc[t] \in {"done", "raised", "cancelled", "cancelling"}
          /\ ws.final_stop \in {"ok", "failed"}

\* C10: when the handler returns, every activity has ended or been cancelled,
\* and if ws_stop_on_close is set the stop batch has been attempted, whether
\* it succeeded or failed
C10_StopAttemptedWhenConfigured ==
    pc["ws"] = "returned"
       => /\ \A t \in WsActivities : pc[t] \in {"done", "raised", "cancelled", "cancelling"}
          /\ settings.ws_stop_on_close => ws.final_stop \in {"ok", "failed"}
          /\ ~settings.ws_stop_on_close => ws.final_stop = "skipped"

\* C10 witness: a session with a sample in flight has ended, the sender was
\* cancelled, and the closing stop batch failed
C10_Witness ==
    /\ pc["ws"] = "returned"
    /\ pc["sender"] = "cancelled"
    /\ ws.latest_seq > 0
    /\ ws.final_stop = "failed"

(***************************************************************************)
(* Specification: one WS joystick session with POST /estop on the channel  *)
(***************************************************************************)

WsEstopTasks == {"ws", "sender", "estop"}

NextWsEstop ==
    \/ ws_joystick
    \/ ClientDisconnect
    \/ receiver_loop
    \/ receiver_loop_raise
    \/ sender_loop_wake
    \/ sender_loop_slept
    \/ sender_loop_next
    \/ sender_loop_sent
    \/ sender_loop_estop_stopped
    \/ sender_loop_cancelled
    \/ ws_joystick_finally
    \/ ws_joystick_return
    \/ estop_on
    \/ estop_on_cmd
    \/ estop_on_return
    \/ \E t \in WsEstopTasks : ChanBegin(t)
    \/ \E t \in WsEstopTasks : ChanResume(t)
    \/ \E w \in WorkerIds : W_Send(w)
    \/ \E w \in WorkerIds : W_Read(w)
    \/ DevReply

\* a session on a link and a device that work: the fault budget is used up
InitWsEstop ==
    /\ InitChanWith(MaxFaults)
    /\ InitApp
    /\ settings \in {[DefaultSettings EXCEPT !.ws_stop_on_close = e] : e \in BOOLEAN}

SpecWsEstop == InitWsEstop /\ [][NextWsEstop]_vars

\* C11: a sample the sender dispatches while the latch is set is not handed to
\* process_joystick (the only lines the sender may queue are the stop batch),
\* and once its stop is over the client is sent one estop frame (status 423)
\* carrying the sequence number of that sample
C11_EstopSampleNotForwarded ==
    [][/\ ( /\ sender_loop_wake \/ sender_loop_next \/ sender_loop_slept
            /\ estop
            /\ pc'["sender"] \notin {"wait_event", "rate_sleep"} )
          => /\ pc'["sender"] # "send"
             /\ call'["sender"].st = "wait_lock"
                   => call'["sender"].lines = <<L.StopA, L.StopB>>
             /\ pc'["sender"] # "estop_stop"
                   => ws'.frame = [type |-> "estop_423", seq |-> ws'.target_seq]
       /\ ( /\ pc["sender"] = "estop_stop"
            /\ pc'["sender"] \notin {"estop_stop", "cancelling", "cancelled"} )
          => ws'.frame = [type |-> "estop_423", seq |-> ws.target_seq]
       /\ ( pc["sender"] # "send" /\ pc'["sender"] = "send" ) => ~estop]_vars

\* C11 witness: with the latch set and the client connected, the second sample
\* was answered with the estop frame after the sender's stop batch had gone
\* out, and only the first sample was forwarded
C11_Witness ==
    /\ estop /\ ws.sock = "open"
    /\ ws.frame = [type |-> "estop_423", seq |-> 2]
    /\ ws.sent_seq = 2 /\ ws.estop_stop_sent
    /\ settings.ws_stop_on_close
    /\ Len(workers) = 7 /\ outcome["estop"] = 200

(***************************************************************************)
(* Specification: one WS joystick session under the scheduling of the      *)
(* event loop and of the worker threads                                    *)
(***************************************************************************)

\* the reply wait of a worker ends with TimeoutError when max_wait_s is over.
\* Before the socket closes timeouts are drawn from the fault budget
\* (W_Timeout); once it has closed the sender dispatches at most once more,
\* and every wait that is left may run out
W_Expire(w) ==
    /\ w <= Len(workers)
    /\ workers[w].phase = "wait"
    /\ ws.sock = "closed"
    /\ workers' = [workers EXCEPT ![w] =
                     [workers[w] EXCEPT !.phase = "err", !.err = "TimeoutError"]]
    /\ UNCHANGED <<ser_open, rx_buf, lock_owner, lock_waiters, call, dev_pending,
                   banners, faults>>
    /\ UNCHANGED <<now, appVars>>
    /\ UNCHANGED tsVars

NextWsLive ==
    \/ ws_joystick
    \/ ClientDisconnect
    \/ receiver_loop
    \/ receiver_loop_raise
    \/ ping_loop
    \/ sender_loop_wake
    \/ sender_loop_slept
    \/ sender_loop_next
    \/ sender_loop_sent
    \/ sender_loop_cancelled
    \/ ws_joystick_finally
    \/ ws_joystick_return
    \/ \E t \in WsTasks : ChanBegin(t)
    \/ \E t \in WsTasks : ChanResume(t)
    \/ \E w \in WorkerIds : W_Send(w)
    \/ \E w \in WorkerIds : W_Read(w)
    \/ \E w \in WorkerIds : W_Expire(w)
    \/ DevReply

\* the steps of the server itself: the event loop runs a coroutine that is
\* ready, a worker thread runs until its command has returned or raised.
\* What the client and the device do is left out
StepWs ==
    \/ receiver_loop_raise
    \/ sender_loop_wake
    \/ sender_loop_slept
    \/ sender_loop_next
    \/ sender_loop_sent
    \/ sender_loop_cancelled
    \/ ws_joystick_finally
    \/ ws_joystick_return
    \/ \E t \in WsTasks : ChanBegin(t)
    \/ \E t \in WsTasks : ChanResume(t)
    \/ \E w \in WorkerIds : W_Send(w)
    \/ \E w \in WorkerIds : W_Read(w)
    \/ \E w \in WorkerIds : W_Expire(w)

\* the session on a link and a device that work until the socket has closed
\* (the fault budget is used up at the start), under weak fairness of the
\* server's steps
SpecWsLive == InitWsEstop /\ [][NextWsLive]_vars /\ WF_vars(StepWs)

_a_b_Swapped(a, b) ==
    <<W.SetAEngine \o SP \o IntChars(b), W.SetBEngine \o SP \o IntChars(a)>>

_a_b(a, b) ==
    <<W.SetAEngine \o SP \o IntChars(a), W.SetBEngine \o SP \o IntChars(b)>>

\* ACTIONS[action]["build"](p); Scaled is int(p * f) for p >= 0, f = tenths / 10
ACTIONS_build ==
    LET Scaled(p, tenths) == (p * tenths) \div 10 IN
    [stop       |-> [p \in 0..255 |-> _a_b(0, 0)],
     forward    |-> [p \in 0..255 |-> _a_b(p, p)],
     backward   |-> [p \in 0..255 |-> _a_b(0 - p, 0 - p)],
     turn_left  |-> [p \in 0..255 |-> _a_b(Scaled(p, 4), p)],
     turn_right |-> [p \in 0..255 |-> _a_b(p, Scaled(p, 4))],
     spin_left  |-> [p \in 0..255 |-> _a_b(0 - p, p)],
     spin_right |-> [p \in 0..255 |-> _a_b(p, 0 - p)],
     slow_mode  |-> [p \in 0..255 |-> _a_b(Scaled(p, 3), Scaled(p, 3))]]

\* run_action up to its await: the lines of the action go to send_cmds
run_action(t, action, power) ==
    Enter(t, SendCmdsFrame(ACTIONS_build[action][clamp(power, 0, 255)], TRUE))

\* the status actions_run maps an exception of run_action to
ActionStatus(c) ==
    IF c.st = "ok" THEN 200
    ELSE IF c.err = "ProtocolError" THEN 400
    ELSE IF c.err = "TimeoutError" THEN 504
    ELSE IF c.err = "SerialException" THEN 503
    ELSE 500

\* POST /actions/run: the router's dependencies (ensure_not_estopped,
\* require_firmware_commands), the test of the name, then the first run_action. The requests name a known or an unknown
\* action, with and without a duration
actions_run ==
    /\ pc["action"] = "idle"
    /\ reqs["action"] < MaxReqs
    /\ reqs' = [reqs EXCEPT !["action"] = @ + 1]
    /\ \E data \in [action : {"forward", "turn_left", "jump"}, power : {160},
                     duration_ms : {0, 500}] :
         IF \/ estop
            \/ ~ensure_supported_command(<<W.SetAEngine, W.SetBEngine>>)
            \/ data.action \notin DOMAIN ACTIONS_build
         THEN /\ outcome' = [outcome EXCEPT !["action"] =
                                IF estop THEN 423
                                ELSE IF ~ensure_supported_command(<<W.SetAEngine, W.SetBEngine>>)
                                THEN 501 ELSE 400]
              /\ UNCHANGED <<pc, call, lock_waiters>>
         ELSE /\ run_action("action", data.action, data.power)
              /\ pc' = [pc EXCEPT !["action"] =
                          IF data.duration_ms > 0 THEN "run_timed" ELSE "run_once"]
              /\ UNCHANGED outcome
    /\ restUnchanged
    /\ UNCHANGED estop

\* the first run_action returned or raised: an exception leaves the handler
\* through its except clauses, a timed action goes to sleep
actions_run_first ==
    /\ pc["action"] \in {"run_timed", "run_once"}
    /\ call["action"].st \in {"ok", "err"}
    /\ call' = [call EXCEPT !["action"] = IdleCall]
    /\ IF call["action"].st = "ok" /\ pc["action"] = "run_timed"
       THEN /\ pc' = [pc EXCEPT !["action"] = "sleep"]
            /\ UNCHANGED outcome
       ELSE /\ pc' = [pc EXCEPT !["action"] = "idle"]
            /\ outcome' = [outcome EXCEPT !["action"] = ActionStatus(call["action"])]
    /\ restUnchanged
    /\ UNCHANGED <<reqs, estop, lock_waiters>>

\* asyncio.sleep(duration_ms / 1000) is over: run_action("stop", 0)
actions_run_slept ==
    /\ pc["action"] = "sleep"
    /\ run_action("action", "stop", 0)
    /\ pc' = [pc EXCEPT !["action"] = "stop"]
    /\ restUnchanged
    /\ UNCHANGED <<reqs, estop, outcome>>

\* the trailing stop returned or raised
actions_run_return ==
    /\ pc["action"] = "stop"
    /\ call["action"].st \in {"ok", "err"}
    /\ call' = [call EXCEPT !["action"] = IdleCall]
    /\ pc' = [pc EXCEPT !["action"] = "idle"]
    /\ outcome' = [outcome EXCEPT !["action"] = ActionStatus(call["action"])]
    /\ restUnchanged
    /\ UNCHANGED <<reqs, estop, lock_waiters>>

NextAct ==
    \/ actions_run
    \/ actions_run_first
    \/ actions_run_slept
    \/ actions_run_return
    \/ estop_on
    \/ estop_on_cmd
    \/ estop_on_return
    \/ \E t \in {"action", "estop"} : ChanBegin(t)
    \/ \E t \in {"action", "estop"} : ChanResume(t)
    \/ \E w \in WorkerIds : W_Send(w)
    \/ \E w \in WorkerIds : W_Read(w)
    \/ \E w \in WorkerIds : W_Timeout(w)
    \/ DevReply
    \/ DevBanner

SpecAct == Init /\ [][NextAct]_vars

\* C13: a timed action does not end before its trailing stop batch has been
\* dispatched, whatever the outcome of the maneuver
C13_TrailingStopAlways ==
    [][pc["action"] = "run_timed" => pc'["action"] \in {"run_timed", "sleep"}]_vars

(***************************************************************************)
(* Batches on the wire                                                     *)
(***************************************************************************)

\* C14: while the send_cmds batch of a task is between the write of its first
\* line and the write of its last line (and no line of it has failed), the
\* only worker that writes to the wire is the worker of that batch
C14_BatchNotInterleaved ==
    [][\A w \in Workers :
         (workers[w].phase = "start" /\ workers'[w].phase = "wait")
            => \A t \in AllTasks :
                 ( /\ call[t].kind = "cmds" /\ call[t].st = "await"
                   /\ workers[call[t].wid].phase # "err"
                   /\ call[t].idx > 1 \/ workers[call[t].wid].phase # "start"
                   /\ ~( /\ call[t].idx = Len(call[t].lines)
                         /\ workers[call[t].wid].phase # "start" ) )
                 => call[t].wid = w]_vars

\* C15: every sample the sender takes for dispatch is newer than the one it
\* took before (target_seq is the sequence number of the sample last taken), so
\* no sample goes to the joystick pipeline twice
C15_SampleForwardedOnce ==
    [][( /\ pc["sender"] \in {"loop", "wait_event"}
         /\ pc'["sender"] \in {"rate_sleep", "send"} )
       => ws'.target_seq > ws.target_seq]_vars

(***************************************************************************)
(* POST /servo/{servo_id}: set_servo_deg.  Time is counted in ticks of      *)
(* 0.1 ms, arithmetic on seconds is exact                                   *)
(***************************************************************************)

\* n / d seconds in ticks
Ticks(n, d) == (n * 10000) \div d

\* int(round(n / d)) for n >= 0, d > 0: round() takes a half to the even
\* neighbour
RoundHalfEven(n, d) ==
    LET q == n \div d
        r == n % d
    IN IF 2 * r < d THEN q
       ELSE IF 2 * r > d THEN q + 1
       ELSE IF q % 2 = 0 THEN q ELSE q + 1

\* d[k] = v
Put(d, k, v) == [x \in DOMAIN d \cup {k} |-> IF x = k THEN v ELSE d[x]]

\* a validation that lets every id through
_validate_servo_id_Any(servo_id) == TRUE

\* _validate_servo_id raises nothing
_validate_servo_id(servo_id) == ~(servo_id < 1 \/ servo_id > servo_count)

\* _limits_for with servo_limits empty: the default range, clamped to 0..180
_limits_for(servo_id) == <<clamp(0, 0, 180), clamp(180, 0, 180)>>

\* a shaping that lets every target through
_apply_slew_rate_Off(state, servo_id, target_deg, t) == target_deg

\* _apply_slew_rate at time t: max_delta is kept as the fraction num / den
_apply_slew_rate(state, servo_id, target_deg, t) ==
    LET rate == settings.servo_slew_rate_dps IN
    IF rate <= 0 THEN target_deg
    ELSE IF servo_id \notin DOMAIN state.last_deg THEN target_deg
    ELSE LET last == state.last_deg[servo_id]
             dt0 == t - Get(state.last_update_ts, servo_id, t)
             dt == IF dt0 <= 0 THEN Ticks(2, 100) ELSE dt0
             den == Ticks(1, 1)
             num == IF rate * dt < den THEN den ELSE rate * dt
             delta == target_deg - last
             step == RoundHalfEven(num, den)
         IN IF Abs(delta) * den <= num THEN target_deg
            ELSE last + (IF delta > 0 THEN step ELSE 0 - step)

\* _rate_limit_or_fail at time t: it returns ("pass"), sleeps wait ticks, or
\* raises 429 with retry_after_ms and the Retry-After header (in seconds)
_rate_limit_or_fail(state, servo_id, t) ==
    LET hz == settings.servo_max_cmd_hz
        min_interval == Ticks(1, IF hz < 1 THEN 1 ELSE hz)
        dt == t - Get(state.last_cmd_ts, servo_id, 0)
        wait == min_interval - dt
    IN IF hz <= 0 \/ dt >= min_interval
       THEN [kind |-> "pass", wait |-> 0, retry_ms |-> 0, retry_after_s |-> 0]
       ELSE IF settings.servo_rate_limit_mode = "sleep"
       THEN [kind |-> "sleep", wait |-> wait, retry_ms |-> 0, retry_after_s |-> 0]
       ELSE [kind |-> "reject", wait |-> wait,
             retry_ms |-> RoundHalfEven(wait, Ticks(1, 1000)),
             retry_after_s |-> IF wait \div Ticks(1, 1) < 1 THEN 1
                               ELSE wait \div Ticks(1, 1)]

\* set_servo_deg from its line to the await of send_cmd
SetServoSend(servo_id, target) ==
    LET line == W.SetServo \o SP \o IntChars(servo_id) \o SP \o IntChars(target) IN
    Enter("servo", SendCmdFrame(line, infer_expect_prefixes_upper(line), TRUE, TRUE))

servoUnchanged == UNCHANGED <<now, settings, device_info, fn, ser_open, rx_buf, lock_owner, workers,
                              dev_pending, banners, faults, last_motor_ts,
                              last_servo_ts, last_any_actuator_ts, estop, wd, ws>>

\* POST /servo/{servo_id} with a body the schema accepts (0 <= deg <= 180): the
\* dependencies (ensure_not_estopped, require_firmware_commands), then
\* set_servo_deg up to its first await
servo_set ==
    /\ pc["servo"] = "idle"
    /\ reqs["servo"] < MaxServoReqs
    /\ reqs' = [reqs EXCEPT !["servo"] = @ + 1]
    /\ servoUnchanged
    /\ \E servo_id \in {1, 2, 6}, deg \in {0, 3, 90} :
         IF estop \/ ~ensure_supported_command(<<W.SetServo>>)
         THEN /\ outcome' = [outcome EXCEPT !["servo"] = IF estop THEN 423 ELSE 501]
              /\ UNCHANGED <<servo, pc, call, lock_waiters>>
         ELSE IF ~_validate_servo_id(servo_id)
         THEN /\ outcome' = [outcome EXCEPT !["servo"] = 400]
              /\ servo' = [servo EXCEPT !.id = servo_id, !.requested = deg]
              /\ UNCHANGED <<pc, call, lock_waiters>>
         ELSE LET lim == _limits_for(servo_id)
                  target == _apply_slew_rate(servo, servo_id,
                                             clamp(deg, lim[1], lim[2]), now)
                  rl == _rate_limit_or_fail(servo, servo_id, now)
                  s1 == [servo EXCEPT !.id = servo_id, !.requested = deg,
                                      !.target = target]
              IN IF rl.kind = "reject"
                 THEN /\ outcome' = [outcome EXCEPT !["servo"] = 429]
                      /\ servo' = [s1 EXCEPT !.retry_ms = rl.retry_ms,
                                             !.retry_after_s = rl.retry_after_s]
                      /\ UNCHANGED <<pc, call, lock_waiters>>
                 ELSE IF rl.kind = "sleep"
                 THEN /\ pc' = [pc EXCEPT !["servo"] = "rate_sleep"]
                      /\ servo' = [s1 EXCEPT !.wake = now + rl.wait]
                      /\ UNCHANGED <<outcome, call, lock_waiters>>
                 ELSE /\ SetServoSend(servo_id, target)
                      /\ pc' = [pc EXCEPT !["servo"] = "send"]
                      /\ servo' = s1
                      /\ UNCHANGED outcome

\* set_servo_deg: asyncio.sleep(wait_s) of the rate limiter is over
servo_set_slept ==
    /\ pc["servo"] = "rate_sleep"
    /\ now >= servo.wake
    /\ SetServoSend(servo.id, servo.target)
    /\ pc' = [pc EXCEPT !["servo"] = "send"]
    /\ servoUnchanged
    /\ UNCHANGED <<servo, reqs, outcome>>

\* a set_servo_deg that records the position whatever send_cmd did
servo_set_return_Always ==
    /\ pc["servo"] = "send"
    /\ call["servo"].st \in {"ok", "err"}
    /\ call' = [call EXCEPT !["servo"] = IdleCall]
    /\ pc' = [pc EXCEPT !["servo"] = "idle"]
    /\ outcome' = [outcome EXCEPT !["servo"] = IF call["servo"].st = "ok" THEN 200 ELSE 500]
    /\ servo' = [servo EXCEPT !.last_deg = Put(@, servo.id, servo.target),
                              !.last_update_ts = Put(@, servo.id, now),
                              !.last_cmd_ts = Put(@, servo.id, now)]
    /\ servoUnchanged
    /\ UNCHANGED <<reqs, lock_waiters>>

\* set_servo_deg: send_cmd returned (the three maps are written at now2) or
\* raised (the exception leaves the handler)
servo_set_return ==
    /\ pc["servo"] = "send"
    /\ call["servo"].st \in {"ok", "err"}
    /\ call' = [call EXCEPT !["servo"] = IdleCall]
    /\ pc' = [pc EXCEPT !["servo"] = "idle"]
    /\ IF call["servo"].st = "ok"
       THEN /\ outcome' = [outcome EXCEPT !["servo"] = 200]
            /\ servo' = [servo EXCEPT !.last_deg = Put(@, servo.id, servo.target),
                                      !.last_update_ts = Put(@, servo.id, now),
                                      !.last_cmd_ts = Put(@, servo.id, now)]
       ELSE /\ outcome' = [outcome EXCEPT !["servo"] = 500]
            /\ UNCHANGED servo
    /\ servoUnchanged
    /\ UNCHANGED <<reqs, lock_waiters>>

\* time.monotonic() moves on: by 39.6 ms or by 0.1 s
ServoTick ==
    /\ \E d \in {396, 1000} :
         /\ now + d <= MaxServoTime
         /\ now' = now + d
    /\ UNCHANGED <<chanVars, appVars>>
    /\ UNCHANGED tsVars

\* the process has been up for a second; the slew rate and the mode of the
\* rate limiter as the operator configured them
InitServo ==
    /\ InitChanAt(Ticks(1, 1), 0)
    /\ InitApp
    /\ settings \in {[DefaultSettings EXCEPT !.servo_slew_rate_dps = r,
                                           !.servo_rate_limit_mode = m] :
                       r \in {0, 25, 30}, m \in {"reject", "sleep"}}

NextServo ==
    \/ servo_set
    \/ servo_set_slept
    \/ servo_set_return
    \/ ServoTick
    \/ \E t \in {"servo"} : ChanBegin(t)
    \/ \E t \in {"servo"} : ChanResume(t)
    \/ \E w \in WorkerIds : W_Send(w)
    \/ \E w \in WorkerIds : W_Read(w)
    \/ \E w \in WorkerIds : W_Timeout(w)
    \/ DevReply

SpecServo == InitServo /\ [][NextServo]_vars

\* C16: when set_servo_deg shapes a target for a servo with a previous
\* position, a slew rate > 0 and dt > 0, the shaped value lies between the
\* previous position and the clamped target, is at most
\* max(round(rate * dt), 1) degrees away from the previous position, is the
\* target when the target is within that cap, and rate = 30, dt = 0.1 s,
\* last = 0, target = 90 give 3
C16_SlewShaped ==
    [][( /\ reqs'["servo"] # reqs["servo"]
         /\ ~estop
         /\ servo'.id \in DOMAIN servo.last_deg
         /\ settings.servo_slew_rate_dps > 0
         /\ now - servo.last_update_ts[servo'.id] > 0 )
       => LET rate == settings.servo_slew_rate_dps
              last == servo.last_deg[servo'.id]
              dt == now - servo.last_update_ts[servo'.id]
              tgt == clamp(servo'.requested, 0, 180)
              rounded == RoundHalfEven(rate * dt, Ticks(1, 1))
              cap == IF rounded > 1 THEN rounded ELSE 1
              shaped == servo'.target
          IN /\ last <= tgt => (last <= shaped /\ shaped <= tgt)
             /\ last >= tgt => (tgt <= shaped /\ shaped <= last)
             /\ Abs(shaped - last) <= cap
             /\ Abs(tgt - last) <= cap => shaped = tgt
             /\ (rate = 30 /\ dt = Ticks(1, 10) /\ last = 0 /\ tgt = 90)
                   => shaped = 3]_vars

\* C16 witness: servo 1 stood at 0, 0.1 s later 90 degrees were asked for at
\* 30 deg/s, and SetServo 1 3 is on its way
C16_Witness ==
    /\ pc["servo"] = "send"
    /\ settings.servo_slew_rate_dps = 30
    /\ servo.id = 1 /\ servo.requested = 90 /\ servo.target = 3
    /\ 1 \in DOMAIN servo.last_deg
    /\ servo.last_deg[1] = 0
    /\ now - servo.last_update_ts[1] = Ticks(1, 10)

\* C17: a call the rate limiter rejected (429) carries a retry_after_ms of at
\* least 1 ms and at most the interval 1 / max_hz
C17_RetryAfterInRange ==
    outcome["servo"] = 429
       => /\ 1 <= servo.retry_ms
          /\ servo.retry_ms * Ticks(1, 1000) <= Ticks(1, settings.servo_max_cmd_hz)

\* C18: last_deg, last_update_ts and last_cmd_ts change only in the step in
\* which set_servo_deg resumes from a send_cmd that returned, and only at the
\* id of the call
C18_MapsChangeOnlyAfterReply ==
    [][<<servo'.last_deg, servo'.last_update_ts, servo'.last_cmd_ts>>
          # <<servo.last_deg, servo.last_update_ts, servo.last_cmd_ts>>
       => /\ pc["servo"] = "send"
          /\ call["servo"].st = "ok"
          /\ \A k \in 1..servo_count \ {servo.id} :
               /\ (k \in DOMAIN servo'.last_deg) = (k \in DOMAIN servo.last_deg)
               /\ Get(servo'.last_deg, k, 0) = Get(servo.last_deg, k, 0)
               /\ Get(servo'.last_update_ts, k, 0) = Get(servo.last_update_ts, k, 0)
               /\ Get(servo'.last_cmd_ts, k, 0) = Get(servo.last_cmd_ts, k, 0)]_vars

\* C18 witness: the first call moved servo 1 to 90, the second call (servo 2)
\* failed on the channel and left servo 2 without an entry
C18_Witness ==
    /\ reqs["servo"] = 2 /\ pc["servo"] = "idle"
    /\ outcome["servo"] = 500
    /\ servo.id = 2
    /\ DOMAIN servo.last_deg = {1}
    /\ servo.last_deg[1] = 90
    /\ DOMAIN servo.last_cmd_ts = {1}

\* C19: a call with an id outside 1..servo_count ends with 400 in the step it
\* arrives in: the port, the lock, the workers, the device's queue, the
\* activity timestamps and the three maps are as before
C19_InvalidIdNoIO ==
    [][( /\ reqs'["servo"] # reqs["servo"]
         /\ ~estop
         /\ (servo'.id < 1 \/ servo'.id > servo_count) )
       => /\ outcome'["servo"] = 400
          /\ UNCHANGED <<ser_open, rx_buf, lock_owner, lock_waiters, workers, call,
                         dev_pending>>
          /\ UNCHANGED tsVars
          /\ UNCHANGED <<servo.last_deg, servo.last_update_ts, servo.last_cmd_ts>>]_vars

\* C19 witness: after servo 1 was set, a call for servo 6 (servo_count is 5)
\* was answered 400 and nothing was dispatched for it
C19_Witness ==
    /\ reqs["servo"] = 2 /\ pc["servo"] = "idle"
    /\ outcome["servo"] = 400
    /\ servo.id = 6
    /\ DOMAIN servo.last_deg = {1}
    /\ Len(workers) = 1

(***************************************************************************)
(* Specification: the entry points behind the firmware's command list      *)
(***************************************************************************)

\* POST /servo/a, /servo/b, /servo/all, /servo/batch, /servo/center and
\* /servo/power: the router takes the first route that matches, and
\* /servo/{servo_id} is declared before them, so the request runs the
\* dependencies of servo_set and then fails the conversion of servo_id to int
servo_shadowed ==
    /\ pc["servo"] = "idle"
    /\ reqs["servo"] < MaxServoReqs
    /\ reqs' = [reqs EXCEPT !["servo"] = @ + 1]
    /\ outcome' = [outcome EXCEPT !["servo"] =
                     IF estop THEN 423
                     ELSE IF ~ensure_supported_command(<<W.SetServo>>) THEN 501
                     ELSE 422]
    /\ UNCHANGED <<servo, pc, call, lock_waiters>>
    /\ servoUnchanged

\* what probe_device can leave in supported_commands: nothing, every command
\* (in the firmware's spelling), the motors only, or motor A and the servos
DeviceInfos ==
    { NoDevice,
      [supported_commands |-> <<W.SETAENGINE, W.SETBENGINE, W.SETSERVO>>],
      [supported_commands |-> <<W.SETAENGINE, W.SetBEngine>>],
      [supported_commands |-> <<SP \o W.SetAEngine \o SP, W.SETSERVO>>] }

CapsTasks == {"motor", "joy", "action", "servo", "ws", "sender"}

\* a link and a device that work; the clients of a behaviour use at most two
\* of the REST entry points, or the WS entry point alone (for the others the
\* requests are used up)
InitCaps ==
    /\ now = Ticks(1, 1)
    /\ ser_open = FALSE
    /\ rx_buf = <<>>
    /\ lock_owner = NoTask
    /\ lock_waiters = <<>>
    /\ last_motor_ts = 0
    /\ last_servo_ts = 0
    /\ last_any_actuator_ts = 0
    /\ workers = <<>>
    /\ call = [t \in AllTasks |-> IdleCall]
    /\ dev_pending = <<>>
    /\ banners = 0
    /\ faults = MaxFaults
    /\ \E used \in SUBSET {"motor", "joy", "action", "servo", "ws"} :
         /\ Cardinality(used) <= 2
         /\ "ws" \in used => used = {"ws"}
         /\ reqs = [t \in AllTasks |->
                      IF t \in used THEN 0
                      ELSE IF t = "servo" THEN MaxServoReqs ELSE MaxReqs]
    /\ estop = FALSE
    /\ pc = [t \in AllTasks |-> IF t = "wd" THEN "sleep" ELSE "idle"]
    /\ outcome = [t \in AllTasks |-> 0]
    /\ wd = InitWd
    /\ ws = NoSession
    /\ servo = NoServo
    /\ settings = DefaultSettings
    /\ device_info \in DeviceInfos
    /\ fn = NoCall

NextCaps ==
    \/ MotorRequest
    \/ MotorReturn
    \/ JoystickRequest
    \/ JoystickReturn
    \/ actions_run
    \/ actions_run_first
    \/ actions_run_slept
    \/ actions_run_return
    \/ servo_set
    \/ servo_set_return
    \/ servo_shadowed
    \/ ws_joystick
    \/ ClientDisconnect
    \/ receiver_loop
    \/ receiver_loop_raise
    \/ sender_loop_wake
    \/ sender_loop_slept
    \/ sender_loop_next
    \/ sender_loop_sent
    \/ sender_loop_cancelled
    \/ ws_joystick_finally
    \/ ws_joystick_return
    \/ \E t \in CapsTasks : ChanBegin(t)
    \/ \E t \in CapsTasks : ChanResume(t)
    \/ \E w \in WorkerIds : W_Send(w)
    \/ \E w \in WorkerIds : W_Read(w)
    \/ DevReply

SpecCaps == InitCaps /\ [][NextCaps]_vars

lifeUnchanged == UNCHANGED <<now, settings, device_info, fn, servo, lock_owner, lock_waiters,
                             workers, call, dev_pending, banners, faults,
                             last_motor_ts, last_servo_ts, last_any_actuator_ts,
                             reqs, estop, outcome, wd, ws>>

\* the finally clause of lifespan up to its first await, once the server has
\* let the requests in progress end: serial_mgr.close(), then stop_watchdog
\* cancels the watchdog task and awaits it
lifespan_exit ==
    /\ pc["life"] = "idle"
    /\ pc["joy"] = "idle"
    /\ close
    /\ pc' = [pc EXCEPT !["life"] = "stop_watchdog", !["wd"] = "cancelling"]
    /\ lifeUnchanged

\* the cancelled watchdog runs: CancelledError leaves asyncio.sleep, or
\* send_cmds through _try_stop_motors (`except Exception` lets it pass)
watchdog_loop_cancelled ==
    /\ pc["wd"] = "cancelling"
    /\ ChanCancel("wd")
    /\ pc' = [pc EXCEPT !["wd"] = "cancelled"]
    /\ UNCHANGED <<now, settings, device_info, fn, servo, reqs, estop, outcome, wd, ws>>

\* stop_watchdog returned: the update task is cancelled and awaited
lifespan_cancel_update ==
    /\ pc["life"] = "stop_watchdog"
    /\ pc["wd"] = "cancelled"
    /\ pc' = [pc EXCEPT !["life"] = "cancel_update", !["update"] = "cancelling"]
    /\ UNCHANGED <<ser_open, rx_buf>>
    /\ lifeUnchanged

\* _update_check_loop gets its CancelledError in asyncio.sleep(30)
update_check_loop_cancelled ==
    /\ pc["update"] = "cancelling"
    /\ pc' = [pc EXCEPT !["update"] = "cancelled"]
    /\ UNCHANGED <<ser_open, rx_buf>>
    /\ lifeUnchanged

\* the finally clause is through: the lifespan has exited
lifespan_return ==
    /\ pc["life"] = "cancel_update"
    /\ pc["update"] = "cancelled"
    /\ pc' = [pc EXCEPT !["life"] = "done"]
    /\ UNCHANGED <<ser_open, rx_buf>>
    /\ lifeUnchanged

NextLife ==
    \/ pc["life"] = "idle" /\ JoystickRequest
    \/ JoystickReturn
    \/ WdTick
    \/ WdStopDone
    \/ lifespan_exit
    \/ watchdog_loop_cancelled
    \/ lifespan_cancel_update
    \/ update_check_loop_cancelled
    \/ lifespan_return
    \/ \E t \in WdTasks : ChanBegin(t)
    \/ \E t \in WdTasks : ChanResume(t)
    \/ \E w \in WorkerIds : W_Send(w)
    \/ \E w \in WorkerIds : W_Read(w)
    \/ \E w \in WorkerIds : W_Lost(w)
    \/ \E w \in WorkerIds : W_TimeoutAt(w)
    \/ DevReply
    \/ TimePasses

SpecLife == InitTimed /\ [][NextLife]_vars

\* C21: once the lifespan has exited, the link is closed, the watchdog task
\* and the update task have ended by cancellation, and no worker thread of
\* _send_cmd_sync is about to write or waiting for a reply
C21_ShutdownLeavesNothing ==
    pc["life"] = "done"
       => /\ ~ser_open
          /\ pc["wd"] = "cancelled"
          /\ pc["update"] = "cancelled"
          /\ \A w \in 1..Len(workers) : workers[w].phase \notin {"start", "wait"}

(***************************************************************************)
(* Specification: mix_tank, process_joystick and run_action called on      *)
(* their own, on arguments from a grid                                     *)
(***************************************************************************)

\* the grid of axis values: the multiples of MixStep and the values next to
\* the limits, to zero and to the dead zones
MixStep == 15
MixAxis == {v \in -255..255 : v % MixStep = 0}
              \cup {-255, -254, -100, -21, -20, -19, -1, 1, 19, 20, 21, 100, 254, 255}

\* JoystickIn bodies: scale2 / 2 is the scale
JoyAxis == {-255, -100, -21, -20, -19, -5, 0, 5, 19, 20, 21, 100, 255}
JoyGrid == [x : JoyAxis, y : JoyAxis, deadzone : {0, 20, 80}, scale2 : {0, 1, 2}]

\* the names and powers run_action is called with
ActionNames == {"stop", "forward", "backward", "turn_left", "turn_right",
                "spin_left", "spin_right", "slow_mode", "jump", "Forward"}
ActionPowers == {-5, 0, 1, 3, 4, 9, 10, 160, 254, 255, 300}

FnCalls ==
    {[name |-> "mix_tank", args |-> <<x, y>>, done |-> FALSE, result |-> <<>>] :
        x \in MixAxis, y \in MixAxis}
    \cup {[name |-> "process_joystick", args |-> d, done |-> FALSE, result |-> <<>>] :
            d \in JoyGrid}
    \cup {[name |-> "run_action", args |-> <<a, p>>, done |-> FALSE, result |-> <<>>] :
            a \in ActionNames, p \in ActionPowers}

InitFn ==
    /\ InitChan
    /\ estop = FALSE
    /\ pc = [t \in AllTasks |-> IF t = "wd" THEN "sleep" ELSE "idle"]
    /\ outcome = [t \in AllTasks |-> 0]
    /\ wd = InitWd
    /\ ws = NoSession
    /\ servo = NoServo
    /\ device_info = NoDevice
    /\ settings = DefaultSettings
    /\ fn \in FnCalls

fnUnchanged == UNCHANGED <<now, settings, device_info, servo, ser_open, rx_buf, lock_owner,
                           workers, dev_pending, banners, faults, last_motor_ts,
                           last_servo_ts, last_any_actuator_ts, reqs, estop, pc, wd, ws>>

\* mix_tank(x, y)
mix_tank_call ==
    /\ fn.name = "mix_tank" /\ ~fn.done
    /\ fn' = [fn EXCEPT !.done = TRUE, !.result = mix_tank(fn.args[1], fn.args[2])]
    /\ UNCHANGED <<call, lock_waiters, outcome>>
    /\ fnUnchanged

\* process_joystick(serial_mgr, data) up to its await of send_cmds
process_joystick_call ==
    /\ fn.name = "process_joystick" /\ ~fn.done
    /\ Enter("joy", SendCmdsFrame(JoystickLines(fn.args), TRUE))
    /\ fn' = [fn EXCEPT !.done = TRUE, !.result = JoystickLines(fn.args)]
    /\ UNCHANGED outcome
    /\ fnUnchanged

\* run_action(serial_mgr, action, power) up to its await of send_cmds, or to
\* its HTTPException(400)
run_action_call ==
    /\ fn.name = "run_action" /\ ~fn.done
    /\ IF fn.args[1] \notin DOMAIN ACTIONS_build
       THEN /\ outcome' = [outcome EXCEPT !["action"] = 400]
            /\ fn' = [fn EXCEPT !.done = TRUE]
            /\ UNCHANGED <<call, lock_waiters>>
       ELSE /\ run_action("action", fn.args[1], fn.args[2])
            /\ fn' = [fn EXCEPT !.done = TRUE, !.result = call'["action"].lines]
            /\ UNCHANGED outcome
    /\ fnUnchanged

NextFn ==
    \/ mix_tank_call
    \/ process_joystick_call
    \/ run_action_call

SpecFn == InitFn /\ [][NextFn]_vars

\* C22: for x and y in -255..255, mix_tank(x, y) is
\* (clamp(y + x, -255, 255), clamp(y - x, -255, 255)), and both values lie in
\* -255..255
C22_MixTankFormula ==
    (fn.name = "mix_tank" /\ fn.done)
       => LET x == fn.args[1]
              y == fn.args[2]
              Lim(v) == IF v > 255 THEN 255 ELSE IF v < -255 THEN -255 ELSE v
          IN /\ fn.result = <<Lim(y + x), Lim(y - x)>>
             /\ fn.result[1] \in -255..255
             /\ fn.result[2] \in -255..255

\* C22 witness: mix_tank(255, 100) was computed; the first value is clamped
C22_Witness ==
    /\ fn.name = "mix_tank" /\ fn.done
    /\ fn.args = <<255, 100>>
    /\ fn.result = <<255, -155>>

\* C23, as stated: mix_tank(255, 255) = (255, 255) and
\* mix_tank(-255, -255) = (-255, -255)
C23_CornersBothFull ==
    (fn.name = "mix_tank" /\ fn.done)
       => /\ fn.args = <<255, 255>> => fn.result = <<255, 255>>
          /\ fn.args = <<-255, -255>> => fn.result = <<-255, -255>>

\* C23, amended: mix_tank(255, 255) = (255, 0) and
\* mix_tank(-255, -255) = (-255, 0): the sum is clamped, the difference is 0
C23_CornersSumClamped ==
    (fn.name = "mix_tank" /\ fn.done)
       => /\ fn.args = <<255, 255>> => fn.result = <<255, 0>>
          /\ fn.args = <<-255, -255>> => fn.result = <<-255, 0>>

\* C23 witness: mix_tank(-255, -255) was computed
C23_Witness ==
    /\ fn.name = "mix_tank" /\ fn.done
    /\ fn.args = <<-255, -255>>
    /\ fn.result = <<-255, 0>>

\* C24: process_joystick zeroes an axis exactly when |v| < deadzone, scales
\* each axis to an integer nearest to v * scale, mixes, and queues one
\* send_cmds batch "SetAEngine a", "SetBEngine b"; x = 100, y = 0,
\* deadzone = 20, scale = 1 gives "SetAEngine 100", "SetBEngine -100"
C24_JoystickPipeline ==
    (fn.name = "process_joystick" /\ fn.done)
       => LET d == fn.args
              Dz(v) == IF (IF v < 0 THEN 0 - v ELSE v) < d.deadzone THEN 0 ELSE v
              Near(s, v) == /\ 2 * s - v * d.scale2 <= 1
                            /\ v * d.scale2 - 2 * s <= 1
              Lim(v) == IF v > 255 THEN 255 ELSE IF v < -255 THEN -255 ELSE v
              Line(word, v) == word \o SP \o IntChars(v)
          IN /\ \E xs \in {s \in -255..255 : Near(s, Dz(d.x))},
                   ys \in {s \in -255..255 : Near(s, Dz(d.y))} :
                  /\ call["joy"].lines = <<Line(W.SetAEngine, Lim(ys + xs)),
                                           Line(W.SetBEngine, Lim(ys - xs))>>
             /\ call["joy"].kind = "cmds" /\ call["joy"].st = "wait_lock"
             /\ lock_waiters = <<"joy">>
             /\ \A t \in AllTasks \ {"joy"} : call[t] = IdleCall
             /\ d = [x |-> 100, y |-> 0, deadzone |-> 20, scale2 |-> 2]
                  => call["joy"].lines = <<Line(W.SetAEngine, 100),
                                           Line(W.SetBEngine, -100)>>

\* C24 witness: the sample x = 20, y = 19 with deadzone 20 and scale 1 was
\* processed: x is kept, y is zeroed
C24_Witness ==
    /\ fn.name = "process_joystick" /\ fn.done
    /\ fn.args = [x |-> 20, y |-> 19, deadzone |-> 20, scale2 |-> 2]
    /\ call["joy"].lines = <<W.SetAEngine \o SP \o <<"2", "0">>,
                             W.SetBEngine \o SP \o <<"-", "2", "0">>>>

\* C25: run_action with a name of the closed set queues the pair of the
\* table for the power clamped to 0..255, fractions truncated and both values
\* in -255..255; any other name is rejected (400) and nothing is queued
C25_ActionTable ==
    (fn.name = "run_action" /\ fn.done)
       => LET a == fn.args[1]
              p == IF fn.args[2] < 0 THEN 0 ELSE IF fn.args[2] > 255 THEN 255 ELSE fn.args[2]
              Trunc(n, d) == CHOOSE q \in 0..255 : q * d <= n /\ n < (q + 1) * d
              Line(word, v) == word \o SP \o IntChars(v)
              Pair == [stop       |-> <<0, 0>>,
                       forward    |-> <<p, p>>,
                       backward   |-> <<0 - p, 0 - p>>,
                       turn_left  |-> <<Trunc(4 * p, 10), p>>,
                       turn_right |-> <<p, Trunc(4 * p, 10)>>,
                       spin_left  |-> <<0 - p, p>>,
                       spin_right |-> <<p, 0 - p>>,
                       slow_mode  |-> <<Trunc(3 * p, 10), Trunc(3 * p, 10)>>]
          IN IF a \in DOMAIN Pair
             THEN /\ call["action"].lines = <<Line(W.SetAEngine, Pair[a][1]),
                                              Line(W.SetBEngine, Pair[a][2])>>
                  /\ call["action"].kind = "cmds"
                  /\ lock_waiters = <<"action">>
                  /\ Pair[a][1] \in -255..255 /\ Pair[a][2] \in -255..255
             ELSE /\ outcome["action"] = 400
                  /\ call["action"] = IdleCall
                  /\ lock_waiters = <<>>
                  /\ workers = <<>>

\* C25 witness: turn_left at power 254 queued "SetAEngine 101" (int(101.6)),
\* "SetBEngine 254"
C25_Witness ==
    /\ fn.name = "run_action" /\ fn.done
    /\ fn.args = <<"turn_left", 254>>
    /\ call["action"].lines = <<W.SetAEngine \o SP \o <<"1", "0", "1">>,
                                W.SetBEngine \o SP \o <<"2", "5", "4">>>>

\* ---------------------------------------------------------------------------
\* SerialManager._readline_buffered_sync on the bytes of the receive buffer.
\* A byte is one of ReadBytes; "LF" stands for the newline byte.

\* max_line of _readline_buffered_sync (256 in the source), scaled down
MaxLineBytes == 3

\* the size asked of self._ser.read (64 in the source), scaled down
ChunkBytes == 2

\* the longest run of bytes the device sends in one behaviour
MaxWire == 5

\* the number of loop rounds a deadline allows
MaxReadRounds == 4

ReadBytes == {"a", " ", "CR", "LF"}

\* the byte strings the device may send
WireStreams == UNION {[1..n -> ReadBytes] : n \in 0..MaxWire}

\* the synthetic frame of an over-long line
ERR_LineTooLong == W.ERR \o SP \o <<"L","i","n","e","T","o","o","L","o","n","g">>

\* bytearray.find(b"\n"): the place of the first newline, 0 for none
FindNl(buf) ==
    IF \E i \in 1..Len(buf) : buf[i] = "LF"
    THEN CHOOSE i \in 1..Len(buf) : buf[i] = "LF" /\ \A j \in 1..(i - 1) : buf[j] # "LF"
    ELSE 0

\* a cleaning that keeps the raw bytes of the line
CleanRaw_Keep(raw) == raw

\* raw.replace(b"\r", b"").strip()
CleanRaw(raw) == Strip(SelectSeq(raw, LAMBDA c : c # "CR"))

\* the state of one call: the receive buffer, the bytes that have not arrived
\* yet, the loop rounds done and the round at which the deadline passes
ReadCall(buf, wire, deadline) ==
    [name |-> "_readline_buffered_sync",
     args |-> [buf |-> buf, wire |-> wire, t |-> 0, deadline |-> deadline],
     done |-> FALSE, result |-> <<>>]

\* the port is open and its buffer was cleared by connect()
InitRead ==
    /\ InitChan
    /\ estop = FALSE
    /\ pc = [t \in AllTasks |-> IF t = "wd" THEN "sleep" ELSE "idle"]
    /\ outcome = [t \in AllTasks |-> 0]
    /\ wd = InitWd
    /\ ws = NoSession
    /\ servo = NoServo
    /\ device_info = NoDevice
    /\ settings = DefaultSettings
    /\ fn \in {ReadCall(<<>>, s, d) : s \in WireStreams, d \in 0..MaxReadRounds}

\* one test of the loop condition of _readline_buffered_sync and, while the
\* deadline has not passed, one round of its body; self._ser.read returns the
\* bytes that have arrived, at most ChunkBytes, or none after its timeout
_readline_buffered_sync ==
    /\ fn.name = "_readline_buffered_sync" /\ ~fn.done
    /\ LET a  == fn.args
           nl == FindNl(a.buf)
       IN
       IF ~(a.t < a.deadline)
       THEN fn' = [fn EXCEPT !.done = TRUE, !.result = <<>>]
       ELSE IF nl # 0
       THEN LET raw  == CleanRaw(SubSeq(a.buf, 1, nl - 1))
                rest == SubSeq(a.buf, nl + 1, Len(a.buf))
            IN IF raw = <<>>
               THEN fn' = [fn EXCEPT !.args.buf = rest, !.args.t = a.t + 1]
               ELSE fn' = [fn EXCEPT !.args.buf = rest, !.done = TRUE, !.result = raw]
       ELSE \E k \in 0..ChunkBytes :
              /\ k <= Len(a.wire)
              /\ LET chunk == SubSeq(a.wire, 1, k)
                     ext   == a.buf \o chunk
                     b1    == IF chunk # <<>> /\ Len(ext) > 4096
                              THEN SubSeq(ext, Len(ext) - 1023, Len(ext))
                              ELSE ext
                     left  == SubSeq(a.wire, k + 1, Len(a.wire))
                 IN IF Len(b1) > MaxLineBytes
                    THEN fn' = [fn EXCEPT !.args.buf = <<>>, !.args.wire = left,
                                          !.done = TRUE, !.result = ERR_LineTooLong]
                    ELSE fn' = [fn EXCEPT !.args.buf = b1, !.args.wire = left,
                                          !.args.t = a.t + 1]
    /\ UNCHANGED <<call, lock_waiters, outcome>>
    /\ fnUnchanged

\* the caller's loop calls the function again with a new deadline
readline_again ==
    /\ fn.name = "_readline_buffered_sync" /\ fn.done
    /\ \E d \in 0..MaxReadRounds :
         fn' = ReadCall(fn.args.buf, fn.args.wire, d)
    /\ UNCHANGED <<call, lock_waiters, outcome>>
    /\ fnUnchanged

NextRead ==
    \/ _readline_buffered_sync
    \/ readline_again

SpecRead == InitRead /\ [][NextRead]_vars

\* C26: on a connected link _readline_buffered_sync returns the empty string
\* when the deadline passes (and only then), leaving the buffer as it is; a
\* read that takes the buffer past max_line clears the buffer and returns
\* "ERR LineTooLong"; a frame it returns is never blank: it is stripped, has
\* no CR or newline in it, and is not empty
C26_ReadFrame ==
    /\ [](fn.name = "_readline_buffered_sync" =>
            /\ Len(fn.args.buf) <= MaxLineBytes
            /\ fn.done /\ fn.result = <<>> => ~(fn.args.t < fn.args.deadline)
            /\ fn.done /\ fn.result = ERR_LineTooLong => fn.args.buf = <<>>
            /\ fn.done /\ fn.result # <<>> =>
                 /\ fn.result = Strip(fn.result)
                 /\ \A i \in 1..Len(fn.result) : fn.result[i] \notin {"CR", "LF"})
    /\ [][fn.name = "_readline_buffered_sync" /\ ~fn.done =>
            /\ ~(fn.args.t < fn.args.deadline) =>
                 fn'.done /\ fn'.result = <<>> /\ fn'.args = fn.args
            /\ /\ fn.args.t < fn.args.deadline
               /\ FindNl(fn.args.buf) = 0
               /\ Len(fn.args.buf) + Len(fn.args.wire) - Len(fn'.args.wire) > MaxLineBytes
               => fn'.done /\ fn'.result = ERR_LineTooLong /\ fn'.args.buf = <<>>]_vars

\* a read took the buffer past max_line while the device was still sending
C26_Witness ==
    /\ fn.name = "_readline_buffered_sync" /\ fn.done
    /\ fn.result = ERR_LineTooLong
    /\ fn.args.buf = <<>>
    /\ Len(fn.args.wire) = 1

\* ---------------------------------------------------------------------------
\* Specification: the watchdog from the start of the lifespan, with the servo
\* safe pose, on the clock of SpecWd

\* the clock of this specification runs up to MaxWdTime
MaxWdTime == 18

\* lifespan, lines 91-97: app.state.serial_mgr is set (the start-up probe that
\* follows is not taken here: device_info holds its result from the start)
lifespan_set_serial_mgr ==
    /\ pc["life"] = "boot"
    /\ pc' = [pc EXCEPT !["life"] = "idle"]
    /\ UNCHANGED <<ser_open, rx_buf>>
    /\ lifeUnchanged

\* either the lifespan has just started the watchdog and has no SerialManager
\* yet, or the server runs with the servo safe pose switched on, one servo
\* command was sent at time 1 and the servos have been idle since
InitWdSafe ==
    /\ ser_open = FALSE
    /\ rx_buf = <<>>
    /\ lock_owner = NoTask
    /\ lock_waiters = <<>>
    /\ last_motor_ts = 0
    /\ workers = <<>>
    /\ call = [t \in AllTasks |-> IdleCall]
    /\ dev_pending = <<>>
    /\ banners = 0
    /\ faults = 0
    /\ reqs = [t \in AllTasks |-> 0]
    /\ estop = FALSE
    /\ outcome = [t \in AllTasks |-> 0]
    /\ ws = NoSession
    /\ device_info = NoDevice
    /\ fn = NoCall
    /\ \/ /\ now = 1
          /\ last_servo_ts = 0
          /\ last_any_actuator_ts = 0
          /\ pc = [t \in AllTasks |->
                     IF t = "wd" THEN "sleep" ELSE IF t = "life" THEN "boot" ELSE "idle"]
          /\ wd = InitWd
          /\ servo = NoServo
          /\ settings \in {[DefaultSettings EXCEPT !.watchdog_enabled = e] : e \in BOOLEAN}
       \/ /\ now = ServoIdle + 1
          /\ last_servo_ts = 1
          /\ last_any_actuator_ts = 1
          /\ pc = [t \in AllTasks |-> IF t = "wd" THEN "sleep" ELSE "idle"]
          /\ wd = [InitWd EXCEPT !.wake = ServoIdle + 1]
          /\ servo = [NoServo EXCEPT !.last_deg = Put(@, 1, servo_center_deg),
                                     !.last_update_ts = Put(@, 1, 1),
                                     !.last_cmd_ts = Put(@, 1, 1)]
          /\ settings = [DefaultSettings EXCEPT !.watchdog_servo_safe_enabled = TRUE]

\* a behaviour that begins at the start of the lifespan ends at MaxTime, one
\* that begins with idle servos at MaxWdTime
WdSafeEnd == IF last_servo_ts = 0 THEN MaxTime ELSE MaxWdTime

NextWdSafe ==
    \/ lifespan_set_serial_mgr
    \/ pc["life"] = "idle" /\ JoystickRequest
    \/ JoystickReturn
    \/ WdTick
    \/ WdStopDone
    \/ WdServoDone
    \/ lifespan_exit
    \/ watchdog_loop_cancelled
    \/ lifespan_cancel_update
    \/ update_check_loop_cancelled
    \/ lifespan_return
    \/ \E t \in WdTasks : ChanBegin(t)
    \/ \E t \in WdTasks : ChanResume(t)
    \/ \E w \in WorkerIds : W_Send(w)
    \/ \E w \in WorkerIds : W_Read(w)
    \/ \E w \in WorkerIds : W_Lost(w)
    \/ \E w \in WorkerIds : W_TimeoutAt(w)
    \/ DevReply
    \/ TimePassesBefore(WdSafeEnd)

SpecWdSafe == InitWdSafe /\ [][NextWdSafe]_vars

\* C27: the watchdog loop is left only through the cancellation stop_watchdog
\* sends; a round that finds no serial manager changes nothing but the end of
\* the next sleep; and a stop batch or safe-pose batch that failed (Timeout,
\* ProtocolError, link fault) is swallowed: the loop goes on to its servo part
\* or to its next sleep with the batch counted as applied, and no failure
\* reaches the task
C27_WatchdogSurvives ==
    /\ [](/\ pc["wd"] \in {"sleep", "stop", "servo", "cancelling", "cancelled"}
          /\ pc["wd"] \in {"cancelling", "cancelled"} => pc["life"] \notin {"boot", "idle"}
          /\ outcome["wd"] = 0)
    /\ [][/\ ~serial_mgr_present /\ wd' # wd =>
               /\ wd' = [wd EXCEPT !.wake = now + WatchdogTick]
               /\ pc'["wd"] = "sleep"
               /\ UNCHANGED <<chanVars, call, lock_waiters>>
               /\ UNCHANGED tsVars
          /\ /\ pc["wd"] \in {"stop", "servo"}
             /\ call["wd"].st = "err"
             /\ pc'["wd"] \notin {pc["wd"], "cancelling"}
             => /\ pc'["wd"] \in {"sleep", "servo"}
                /\ pc["wd"] = "stop" => wd'.motor_applied
                /\ pc["wd"] = "servo" => wd'.servo_applied /\ pc'["wd"] = "sleep"
                /\ call'["wd"] = IdleCall \/ pc'["wd"] = "servo"]_vars

\* the safe-pose batch timed out and the loop is about to take the failure
\* in
C27_Witness ==
    /\ pc["wd"] = "servo"
    /\ call["wd"].st = "err"
    /\ call["wd"].err = "TimeoutError"
    /\ pc["life"] = "idle"

\* ---------------------------------------------------------------------------
\* SerialManager._wait_relevant_reply_sync on the frames _readline_buffered_sync
\* hands it. The clock counts the 0.40 s deadlines of the reads.

\* max_wait_s in read deadlines
MaxWaitRounds == 3

\* the frames a read may return: a banner, error lines, replies to "PING" in
\* both cases, and a line nobody waits for
WaitFrames ==
    { W.OK \o SP \o W.READY,
      L.ERR, Lower(L.ERR), ERR_LineTooLong,
      L.OK_PONG, Lower(L.OK_PONG),
      W.TELEM }

\* the expect_prefixes_upper a caller passes
WaitExpects == { <<W.OK \o SP \o W.PONG>>, <<W.OK>> }

\* a Timeout message that lists every line seen
TimeoutSeen_All(seen) == seen

\* seen[:10] of the Timeout message
TimeoutSeen(seen) == SubSeq(seen, 1, IF Len(seen) > 10 THEN 10 ELSE Len(seen))

\* the state of one call: `seen`, the clock, `end`, and the frame the last
\* read returned
WaitCall(sent, expect) ==
    [name |-> "_wait_relevant_reply_sync",
     args |-> [sent |-> sent, expect |-> expect, t |-> 0, end |-> MaxWaitRounds,
               seen |-> <<>>, frame |-> <<>>],
     done |-> FALSE,
     result |-> [kind |-> "none"]]

InitWaitFn ==
    /\ InitChan
    /\ estop = FALSE
    /\ pc = [t \in AllTasks |-> IF t = "wd" THEN "sleep" ELSE "idle"]
    /\ outcome = [t \in AllTasks |-> 0]
    /\ wd = InitWd
    /\ ws = NoSession
    /\ servo = NoServo
    /\ device_info = NoDevice
    /\ settings = DefaultSettings
    /\ fn \in {WaitCall(L.PING, e) : e \in WaitExpects}

\* one test of the loop condition of _wait_relevant_reply_sync and, while it
\* holds, one round: a read that returns nothing has waited for its whole
\* deadline, a read that returns a frame may have taken any part of it
_wait_relevant_reply_sync ==
    /\ fn.name = "_wait_relevant_reply_sync" /\ ~fn.done
    /\ LET a == fn.args IN
       IF ~(a.t < a.end /\ Len(a.seen) < max_lines)
       THEN fn' = [fn EXCEPT !.done = TRUE,
                             !.result = [kind |-> "TimeoutError", sent |-> a.sent,
                                         expect |-> a.expect,
                                         seen |-> TimeoutSeen(a.seen)]]
       ELSE \/ fn' = [fn EXCEPT !.args.t = a.t + 1, !.args.frame = <<>>]
            \/ \E s \in WaitFrames, dt \in {0, 1} :
                 LET k  == Classify(s, a.expect)
                     a1 == [a EXCEPT !.t = a.t + dt, !.frame = s]
                 IN
                 CASE k = "ignore" -> fn' = [fn EXCEPT !.args = a1]
                   [] k = "err" ->
                        fn' = [fn EXCEPT !.args = a1, !.done = TRUE,
                                         !.result = [kind |-> "ProtocolError",
                                                     sent |-> a.sent, reply |-> s]]
                   [] k = "match" ->
                        fn' = [fn EXCEPT !.args = [a1 EXCEPT !.seen = Append(a.seen, s)],
                                         !.done = TRUE,
                                         !.result = [kind |-> "reply", reply |-> s]]
                   [] k = "unexpected" ->
                        fn' = [fn EXCEPT !.args = [a1 EXCEPT !.seen = Append(a.seen, s)]]
    /\ UNCHANGED <<call, lock_waiters, outcome>>
    /\ fnUnchanged

\* the caller sends the next command and waits again
wait_again ==
    /\ fn.name = "_wait_relevant_reply_sync" /\ fn.done
    /\ \E e \in WaitExpects : fn' = WaitCall(L.PING, e)
    /\ UNCHANGED <<call, lock_waiters, outcome>>
    /\ fnUnchanged

NextWaitFn ==
    \/ _wait_relevant_reply_sync
    \/ wait_again

SpecWaitFn == InitWaitFn /\ [][NextWaitFn]_vars

\* a round that read a frame treated it by the first rule that applies to its
\* upper-cased form: banner prefix, discarded; ERR prefix, ProtocolError with
\* the sent line and the reply; expected prefix, returned; otherwise recorded
\* in `seen` and the wait goes on
WaitStepClassified ==
    LET a  == fn.args
        s  == fn'.args.frame
        up == Upper(s)
    IN
    /\ fn.name = "_wait_relevant_reply_sync" /\ ~fn.done
    /\ a.t < a.end /\ Len(a.seen) < max_lines
    /\ s # <<>>
    => IF \E i \in 1..Len(IGNORE_LINE_PREFIXES_UPPER) :
             StartsWith(up, IGNORE_LINE_PREFIXES_UPPER[i])
       THEN ~fn'.done /\ fn'.args.seen = a.seen
       ELSE IF StartsWith(up, W.ERR)
       THEN /\ fn'.done
            /\ fn'.result = [kind |-> "ProtocolError", sent |-> a.sent, reply |-> s]
       ELSE IF \E i \in 1..Len(a.expect) : StartsWith(up, a.expect[i])
       THEN fn'.done /\ fn'.result = [kind |-> "reply", reply |-> s]
       ELSE ~fn'.done /\ fn'.args.seen = Append(a.seen, s)

\* a Timeout carries the sent line, the expected set and at most 10 of the
\* unexpected lines, the first ones
TimeoutCarries ==
    fn.name = "_wait_relevant_reply_sync" /\ fn.done /\ fn.result.kind = "TimeoutError"
    => /\ fn.result.sent = fn.args.sent
       /\ fn.result.expect = fn.args.expect
       /\ Len(fn.result.seen) <= 10
       /\ \A i \in 1..Len(fn.result.seen) : fn.result.seen[i] = fn.args.seen[i]

\* C28 as stated: the frames are classified banner, ERR, expected, unexpected
\* in this order, and a Timeout is raised only when max_wait has elapsed
C28_TimeoutOnlyAfterMaxWait ==
    /\ [][WaitStepClassified]_vars
    /\ []TimeoutCarries
    /\ [](fn.name = "_wait_relevant_reply_sync" /\ fn.done
            /\ fn.result.kind = "TimeoutError"
          => ~(fn.args.t < fn.args.end))

\* C28, amended: the frames are classified banner, ERR, expected, unexpected
\* in this order, and a Timeout is raised only when max_wait has elapsed or
\* max_lines lines have been recorded without a match
C28_TimeoutAfterMaxWaitOrMaxLines ==
    /\ [][WaitStepClassified]_vars
    /\ []TimeoutCarries
    /\ [](fn.name = "_wait_relevant_reply_sync" /\ fn.done
            /\ fn.result.kind = "TimeoutError"
          => ~(fn.args.t < fn.args.end) \/ Len(fn.args.seen) >= max_lines)

\* a Timeout raised before max_wait has elapsed, with 80 lines recorded and
\* 10 of them in the message
C28_Witness ==
    /\ fn.name = "_wait_relevant_reply_sync" /\ fn.done
    /\ fn.result.kind = "TimeoutError"
    /\ fn.args.t < fn.args.end
    /\ Len(fn.args.seen) = max_lines
    /\ Len(fn.result.seen) = 10

\* C29: when the worker of line k of a send_cmds batch has failed and the
\* coroutine resumes, the batch ends there: no worker is started for a later
\* line and nothing more reaches the device, the link is closed with an empty
\* buffer, and the call ends with the worker's error, not with replies; once
\* ended so, the batch has no worker left that could write
C29_BatchAbortsOnFirstFailure ==
    /\ [][\A t \in WdTasks :
            /\ call[t].kind = "cmds" /\ call[t].st = "await"
            /\ workers[call[t].wid].phase = "err"
            /\ call'[t] # call[t]
            /\ pc[t] # "cancelling"
            => /\ call'[t].st = "err"
               /\ call'[t].err = workers[call[t].wid].err
               /\ call'[t].idx = call[t].idx
               /\ Len(workers') = Len(workers)
               /\ dev_pending' = dev_pending
               /\ ~ser_open' /\ rx_buf' = <<>>
               /\ lock_owner' = NoTask]_vars
    /\ [](\A t \in WdTasks :
            call[t].kind = "cmds" /\ call[t].st = "err"
            => \A w \in Workers :
                 workers[w].task = t => workers[w].phase \notin {"start", "wait"})

\* the second of the five safe-pose lines failed: the batch has ended with the
\* error, the link is closed and three lines were never handed to a worker
C29_Witness ==
    /\ call["wd"].kind = "cmds" /\ call["wd"].st = "err"
    /\ Len(call["wd"].lines) = 5
    /\ call["wd"].idx = 2
    /\ ~ser_open
    /\ Len(workers) = 2

\* C30: the batches the watchdog sends leave the three timestamps alone,
\* whether they succeed or fail: no step in which the watchdog's call or one
\* of its workers moves changes a timestamp, last_servo_ts keeps its value
\* through every safe-pose batch (no one else sends servo commands here), and
\* last_motor_ts and last_any_actuator_ts change only when POST /joystick
\* hands a line to a worker
C30_WatchdogLeavesTimestamps ==
    [][/\ \/ call'["wd"] # call["wd"]
          \/ \E w \in Workers : workers[w].task = "wd" /\ workers'[w] # workers[w]
          => UNCHANGED tsVars
       /\ last_servo_ts' = last_servo_ts
       /\ \/ last_motor_ts' # last_motor_ts
          \/ last_any_actuator_ts' # last_any_actuator_ts
          => /\ call'["joy"].st = "await"
             /\ call'["joy"] # call["joy"]
             /\ last_motor_ts' = now /\ last_any_actuator_ts' = now]_vars

\* the safe-pose batch has ended well, its five commands answered, and the
\* servo timestamp is the one of the servo command sent at time 1
C30_Witness ==
    /\ pc["wd"] = "servo"
    /\ call["wd"].st = "ok"
    /\ Len(call["wd"].lines) = 5
    /\ last_servo_ts = 1
    /\ last_any_actuator_ts = 1
    /\ now > ServoIdle

\* ---------------------------------------------------------------------------
\* Specification: the servo safe pose of the watchdog next to POST /estop, on
\* the clock of SpecWd

\* servo_safe_pose as the operator may set it: empty, or a pose for two ids
SafePoses == { <<>>, Put(Put(<<>>, 1, 20), 3, 160) }

\* the server runs with watchdog_servo_safe_enabled, one servo command was
\* sent at time 1 and the servos have been idle since; the latch is open or
\* was set earlier
InitWdEstop ==
    /\ now = ServoIdle + 1
    /\ ser_open = FALSE
    /\ rx_buf = <<>>
    /\ lock_owner = NoTask
    /\ lock_waiters = <<>>
    /\ last_motor_ts = 0
    /\ last_servo_ts = 1
    /\ last_any_actuator_ts = 1
    /\ workers = <<>>
    /\ call = [t \in AllTasks |-> IdleCall]
    /\ dev_pending = <<>>
    /\ banners = 0
    /\ faults = 0
    /\ reqs = [t \in AllTasks |-> 0]
    /\ estop \in BOOLEAN
    /\ pc = [t \in AllTasks |-> IF t = "wd" THEN "sleep" ELSE "idle"]
    /\ outcome = [t \in AllTasks |-> 0]
    /\ wd = [InitWd EXCEPT !.wake = ServoIdle + 1]
    /\ ws = NoSession
    /\ servo = [NoServo EXCEPT !.last_deg = Put(@, 1, servo_center_deg),
                               !.last_update_ts = Put(@, 1, 1),
                               !.last_cmd_ts = Put(@, 1, 1)]
    /\ device_info = NoDevice
    /\ fn = NoCall
    /\ settings \in {[DefaultSettings EXCEPT !.watchdog_servo_safe_enabled = TRUE,
                                           !.servo_safe_pose = p] : p \in SafePoses}

WdEstopTasks == {"wd", "estop"}

NextWdEstop ==
    \/ WdTick
    \/ WdServoDone
    \/ estop_on
    \/ estop_on_cmd
    \/ estop_on_return
    \/ \E t \in WdEstopTasks : ChanBegin(t)
    \/ \E t \in WdEstopTasks : ChanResume(t)
    \/ \E w \in WorkerIds : W_Send(w)
    \/ \E w \in WorkerIds : W_Read(w)
    \/ \E w \in WorkerIds : W_TimeoutAt(w)
    \/ DevReply
    \/ TimePassesBefore(MaxWdTime)

SpecWdEstop == InitWdEstop /\ [][NextWdEstop]_vars

\* the batch of a servo idle episode: "SetServo <id> <deg>" for every id, with
\* the safe pose of the id or the centre
SafePoseBatch ==
    [sid \in 1..servo_count |->
        W.SetServo \o SP \o IntChars(sid) \o SP \o
            IntChars(IF sid \in DOMAIN settings.servo_safe_pose
                     THEN settings.servo_safe_pose[sid] ELSE servo_center_deg)]

\* a round issues the safe-pose batch exactly when the servos are idle, the
\* latch is open and the episode has no batch yet; the batch names every id;
\* a batch that has ended marks the episode as served
SafePoseIssuedOnce ==
    [][/\ pc["wd"] = "sleep" /\ pc'["wd"] = "servo"
          => /\ call'["wd"].lines = SafePoseBatch
             /\ ServoIdleAt(now) /\ ~estop /\ ~wd.servo_applied
       /\ pc["wd"] = "sleep" /\ wd' # wd /\ ServoIdleAt(now) /\ ~estop /\ ~wd.servo_applied
          => pc'["wd"] = "servo"
       /\ pc["wd"] = "servo" /\ pc'["wd"] = "sleep" => wd'.servo_applied]_vars

\* no servo command of the watchdog is written while the latch is set
NoSafePoseWriteWhileEstop ==
    \A w \in Workers :
        workers[w].task = "wd" /\ workers[w].sent # NoLine => ~workers[w].wr_estop

\* C31: with the servo-safe feature on, each servo idle episode with the latch
\* open gets the batch of SetServo lines (safe pose or centre, every id)
\* exactly once, and no servo command is sent while estop is active
C31_SafePoseOncePerEpisode ==
    /\ SafePoseIssuedOnce
    /\ []NoSafePoseWriteWhileEstop

\* ---------------------------------------------------------------------------
\* The rate limit of sender_loop (/ws/joystick) on the servo clock (0.1 ms a
\* tick): the client keeps sending samples, the latch is open, and each
\* dispatch of process_joystick returns or raises after some time

\* the clock of this specification runs up to MaxRateTime
MaxRateTime == 11400

\* ws_max_rate_hz as the operator may set it
RateHz == {10, 30}

\* min_interval = 1.0 / max(1.0, ws_max_rate_hz)
min_interval_ws(hz) == Ticks(1, IF hz < 1 THEN 1 ELSE hz)

\* the locals of sender_loop: last_send; the place in the inner loop; the end
\* of the rate-limit sleep; and the times at which the last two dispatches
\* of process_joystick began (0 for none), with the outcome of the earlier
SenderCall(hz) ==
    [name |-> "sender_loop",
     args |-> [hz |-> hz, last_send |-> 0, pos |-> "top", wake |-> 0,
               prev |-> 0, cur |-> 0, prev_ok |-> TRUE],
     done |-> FALSE, result |-> <<>>]

\* the process has been up for a second
InitRate ==
    /\ InitChanAt(Ticks(1, 1), 0)
    /\ estop = FALSE
    /\ pc = [t \in AllTasks |-> IF t = "wd" THEN "sleep" ELSE "idle"]
    /\ outcome = [t \in AllTasks |-> 0]
    /\ wd = InitWd
    /\ ws = NoSession
    /\ servo = NoServo
    /\ device_info = NoDevice
    /\ settings = DefaultSettings
    /\ fn \in {SenderCall(hz) : hz \in RateHz}

rateUnchanged == UNCHANGED <<settings, device_info, servo, ser_open, rx_buf, lock_owner,
                             workers, dev_pending, banners, faults, last_motor_ts,
                             last_servo_ts, last_any_actuator_ts, reqs, estop, pc, wd, ws,
                             call, lock_waiters, outcome>>

\* process_joystick is called at time t
Dispatched(a, t) == [a EXCEPT !.pos = "send", !.prev = a.cur, !.cur = t]

\* the inner loop of sender_loop with a new sample at hand: the snapshot, then
\* the rate-limit sleep or the call of process_joystick
sender_loop_top ==
    /\ fn.name = "sender_loop" /\ fn.args.pos = "top"
    /\ LET a  == fn.args
           dt == now - a.last_send
       IN IF dt < min_interval_ws(a.hz)
          THEN fn' = [fn EXCEPT !.args.pos = "sleep",
                                !.args.wake = now + (min_interval_ws(a.hz) - dt)]
          ELSE fn' = [fn EXCEPT !.args = Dispatched(a, now)]
    /\ UNCHANGED now
    /\ rateUnchanged

\* asyncio.sleep(min_interval - dt) is over
sender_loop_rate_slept ==
    /\ fn.name = "sender_loop" /\ fn.args.pos = "sleep"
    /\ now >= fn.args.wake
    /\ fn' = [fn EXCEPT !.args = Dispatched(fn.args, now)]
    /\ UNCHANGED now
    /\ rateUnchanged

\* process_joystick returned (sent_seq and last_send are set, joy_ack) or
\* raised (error frame); the inner loop goes round
sender_loop_dispatched ==
    /\ fn.name = "sender_loop" /\ fn.args.pos = "send"
    /\ \E ok \in BOOLEAN :
         fn' = [fn EXCEPT !.args.pos = "top",
                          !.args.prev_ok = ok,
                          !.args.last_send = IF ok THEN now ELSE @]
    /\ UNCHANGED now
    /\ rateUnchanged

\* time.monotonic() moves on: by 10 ms, by a thirtieth or by a tenth of a
\* second
RateTick ==
    /\ \E d \in {100, 333, 1000} :
         /\ now + d <= MaxRateTime
         /\ now' = now + d
    /\ UNCHANGED fn
    /\ rateUnchanged

NextRate ==
    \/ sender_loop_top
    \/ sender_loop_rate_slept
    \/ sender_loop_dispatched
    \/ RateTick

SpecRate == InitRate /\ [][NextRate]_vars

\* C32: any two consecutive dispatches of process_joystick in one session
\* begin at least 1 / ws_max_rate_hz apart, whether the earlier one returned
\* or raised
C32_DispatchesSpaced ==
    fn.name = "sender_loop" /\ fn.args.prev # 0
    => fn.args.cur - fn.args.prev >= Ticks(1, fn.args.hz)

\* the same for a dispatch that follows one that returned
C32_DispatchesSpacedAfterSuccess ==
    fn.name = "sender_loop" /\ fn.args.prev # 0 /\ fn.args.pos = "send" /\ fn.args.prev_ok
    => fn.args.cur - fn.args.prev >= Ticks(1, fn.args.hz)

\* ---------------------------------------------------------------------------
\* set_servo_deg called by two requests at once for servo 1, on the servo
\* clock (0.1 ms a tick). send_cmd is taken as what it is to its caller: the
\* wait for the channel lock, the write, and the reply or the failure

ServoCallers == {1, 2}

\* the clock of this specification runs up to MaxRaceTime
MaxRaceTime == 10800

\* the two calls before they begin; last_cmd_ts of ServoRuntimeState; the
\* caller inside send_cmd; and the times at which the last two "SetServo 1"
\* lines were written (0 for none)
RaceCall ==
    [name |-> "set_servo_deg",
     args |-> [pos |-> [c \in ServoCallers |-> "idle"],
               wake |-> [c \in ServoCallers |-> 0],
               last_cmd_ts |-> <<>>, lock |-> 0, prev |-> 0, cur |-> 0],
     done |-> FALSE, result |-> <<>>]

\* the process has been up for a second; servo_max_cmd_hz is 25 and the mode
\* of the rate limiter is as the operator configured it
InitRace ==
    /\ InitChanAt(Ticks(1, 1), 0)
    /\ estop = FALSE
    /\ pc = [t \in AllTasks |-> IF t = "wd" THEN "sleep" ELSE "idle"]
    /\ outcome = [t \in AllTasks |-> 0]
    /\ wd = InitWd
    /\ ws = NoSession
    /\ servo = NoServo
    /\ device_info = NoDevice
    /\ settings \in {[DefaultSettings EXCEPT !.servo_rate_limit_mode = m] :
                       m \in {"reject", "sleep"}}
    /\ fn = RaceCall

\* set_servo_deg of caller c up to its first await: the rate limiter lets it
\* pass, puts it to sleep, or rejects it with 429
set_servo_deg_begin(c) ==
    /\ fn.name = "set_servo_deg" /\ fn.args.pos[c] = "idle"
    /\ LET rl == _rate_limit_or_fail(fn.args, 1, now) IN
       fn' = [fn EXCEPT !.args.pos[c] = IF rl.kind = "reject" THEN "idle"
                                        ELSE IF rl.kind = "sleep" THEN "rate_sleep"
                                        ELSE "wait_lock",
                        !.args.wake[c] = now + rl.wait]
    /\ UNCHANGED now
    /\ rateUnchanged

\* asyncio.sleep(wait_s) of the rate limiter is over
set_servo_deg_slept(c) ==
    /\ fn.name = "set_servo_deg" /\ fn.args.pos[c] = "rate_sleep"
    /\ now >= fn.args.wake[c]
    /\ fn' = [fn EXCEPT !.args.pos[c] = "wait_lock"]
    /\ UNCHANGED now
    /\ rateUnchanged

\* send_cmd of caller c takes the channel lock and its worker writes the line
set_servo_deg_write(c) ==
    /\ fn.name = "set_servo_deg" /\ fn.args.pos[c] = "wait_lock"
    /\ fn.args.lock = 0
    /\ fn' = [fn EXCEPT !.args.pos[c] = "await", !.args.lock = c,
                        !.args.prev = fn.args.cur, !.args.cur = now]
    /\ UNCHANGED now
    /\ rateUnchanged

\* send_cmd returned (the three maps are written at now2) or raised
set_servo_deg_end(c) ==
    /\ fn.name = "set_servo_deg" /\ fn.args.pos[c] = "await"
    /\ \E ok \in BOOLEAN :
         fn' = [fn EXCEPT !.args.pos[c] = "idle", !.args.lock = 0,
                          !.args.last_cmd_ts = IF ok THEN Put(@, 1, now) ELSE @]
    /\ UNCHANGED now
    /\ rateUnchanged

\* time.monotonic() moves on: by 20 ms or by 40 ms
RaceTick ==
    /\ \E d \in {200, 400} :
         /\ now + d <= MaxRaceTime
         /\ now' = now + d
    /\ UNCHANGED fn
    /\ rateUnchanged

NextRace ==
    \/ \E c \in ServoCallers : set_servo_deg_begin(c)
    \/ \E c \in ServoCallers : set_servo_deg_slept(c)
    \/ \E c \in ServoCallers : set_servo_deg_write(c)
    \/ \E c \in ServoCallers : set_servo_deg_end(c)
    \/ RaceTick

SpecRace == InitRace /\ [][NextRace]_vars

\* C33: with servo_max_cmd_hz >= 1 and in either mode, two SetServo lines for
\* one id are never written less than 1 / servo_max_cmd_hz apart
C33_WritesSpaced ==
    fn.name = "set_servo_deg" /\ fn.args.prev # 0
    => fn.args.cur - fn.args.prev >= Ticks(1, settings.servo_max_cmd_hz)

\* ---------------------------------------------------------------------------
\* set_servo_batch: set_servo_deg for each item in turn, on the servo clock

\* the longest batch
MaxBatch == 3

\* the items of a batch: (id, deg), among them an id that does not exist
BatchItems == { <<1, 0>>, <<2, 90>>, <<6, 3>>, <<1, 90>> }

Batches == UNION {[1..n -> BatchItems] : n \in 2..MaxBatch}

\* the state of one call: the items, the place k in the list, and at the end
\* the status (200, or the status of the item that failed)
BatchCall(items) ==
    [name |-> "set_servo_batch",
     args |-> [items |-> items, k |-> 1],
     done |-> FALSE, result |-> 0]

InitBatch ==
    /\ InitChanAt(Ticks(1, 1), 0)
    /\ estop = FALSE
    /\ pc = [t \in AllTasks |-> IF t = "wd" THEN "sleep" ELSE "idle"]
    /\ outcome = [t \in AllTasks |-> 0]
    /\ wd = InitWd
    /\ ws = NoSession
    /\ servo = NoServo
    /\ device_info = NoDevice
    /\ settings \in {[DefaultSettings EXCEPT !.servo_rate_limit_mode = m] :
                       m \in {"reject", "sleep"}}
    /\ fn \in {BatchCall(b) : b \in Batches}

batchUnchanged == UNCHANGED <<now, settings, device_info, ser_open, rx_buf, lock_owner,
                              workers, dev_pending, banners, faults, last_motor_ts,
                              last_servo_ts, last_any_actuator_ts, estop, wd, ws, reqs,
                              outcome>>

\* set_servo_batch at item k: set_servo_deg up to its first await, or the
\* exception of its validation or of its rate limiter, which ends the batch
set_servo_batch_item ==
    /\ fn.name = "set_servo_batch" /\ ~fn.done
    /\ pc["servo"] = "idle"
    /\ LET servo_id == fn.args.items[fn.args.k][1]
           deg == fn.args.items[fn.args.k][2]
       IN
       IF ~_validate_servo_id(servo_id)
       THEN /\ fn' = [fn EXCEPT !.done = TRUE, !.result = 400]
            /\ servo' = [servo EXCEPT !.id = servo_id, !.requested = deg]
            /\ UNCHANGED <<pc, call, lock_waiters>>
       ELSE LET lim == _limits_for(servo_id)
                target == _apply_slew_rate(servo, servo_id,
                                           clamp(deg, lim[1], lim[2]), now)
                rl == _rate_limit_or_fail(servo, servo_id, now)
                s1 == [servo EXCEPT !.id = servo_id, !.requested = deg,
                                    !.target = target]
            IN IF rl.kind = "reject"
               THEN /\ fn' = [fn EXCEPT !.done = TRUE, !.result = 429]
                    /\ servo' = [s1 EXCEPT !.retry_ms = rl.retry_ms,
                                           !.retry_after_s = rl.retry_after_s]
                    /\ UNCHANGED <<pc, call, lock_waiters>>
               ELSE IF rl.kind = "sleep"
               THEN /\ pc' = [pc EXCEPT !["servo"] = "rate_sleep"]
                    /\ servo' = [s1 EXCEPT !.wake = now + rl.wait]
                    /\ UNCHANGED <<fn, call, lock_waiters>>
               ELSE /\ SetServoSend(servo_id, target)
                    /\ pc' = [pc EXCEPT !["servo"] = "send"]
                    /\ servo' = s1
                    /\ UNCHANGED fn
    /\ batchUnchanged

\* a batch that goes on with the next item after an item has failed
set_servo_batch_next_GoesOn ==
    /\ fn.name = "set_servo_batch" /\ ~fn.done
    /\ pc["servo"] = "send"
    /\ call["servo"].st \in {"ok", "err"}
    /\ call' = [call EXCEPT !["servo"] = IdleCall]
    /\ pc' = [pc EXCEPT !["servo"] = "idle"]
    /\ servo' = IF call["servo"].st = "ok"
                THEN [servo EXCEPT !.last_deg = Put(@, servo.id, servo.target),
                                   !.last_update_ts = Put(@, servo.id, now),
                                   !.last_cmd_ts = Put(@, servo.id, now)]
                ELSE servo
    /\ fn' = IF fn.args.k = Len(fn.args.items)
             THEN [fn EXCEPT !.done = TRUE,
                             !.result = IF call["servo"].st = "ok" THEN 200 ELSE 500]
             ELSE [fn EXCEPT !.args.k = @ + 1]
    /\ UNCHANGED lock_waiters
    /\ batchUnchanged

\* set_servo_deg of item k is over: send_cmd returned (the three maps are
\* written and the loop goes to item k + 1, or returns after the last) or
\* raised (the exception leaves set_servo_batch)
set_servo_batch_next ==
    /\ fn.name = "set_servo_batch" /\ ~fn.done
    /\ pc["servo"] = "send"
    /\ call["servo"].st \in {"ok", "err"}
    /\ call' = [call EXCEPT !["servo"] = IdleCall]
    /\ pc' = [pc EXCEPT !["servo"] = "idle"]
    /\ IF call["servo"].st = "ok"
       THEN /\ servo' = [servo EXCEPT !.last_deg = Put(@, servo.id, servo.target),
                                      !.last_update_ts = Put(@, servo.id, now),
                                      !.last_cmd_ts = Put(@, servo.id, now)]
            /\ fn' = IF fn.args.k = Len(fn.args.items)
                     THEN [fn EXCEPT !.done = TRUE, !.result = 200]
                     ELSE [fn EXCEPT !.args.k = @ + 1]
       ELSE /\ fn' = [fn EXCEPT !.done = TRUE, !.result = 500]
            /\ UNCHANGED servo
    /\ UNCHANGED lock_waiters
    /\ batchUnchanged

\* asyncio.sleep(wait_s) of the rate limiter of item k is over
set_servo_batch_slept ==
    /\ fn.name = "set_servo_batch"
    /\ pc["servo"] = "rate_sleep"
    /\ now >= servo.wake
    /\ SetServoSend(servo.id, servo.target)
    /\ pc' = [pc EXCEPT !["servo"] = "send"]
    /\ UNCHANGED <<servo, fn>>
    /\ batchUnchanged

NextBatch ==
    \/ set_servo_batch_item
    \/ set_servo_batch_slept
    \/ set_servo_batch_next
    \/ ServoTick
    \/ \E t \in {"servo"} : ChanBegin(t)
    \/ \E t \in {"servo"} : ChanResume(t)
    \/ \E w \in WorkerIds : W_Send(w)
    \/ \E w \in WorkerIds : W_Read(w)
    \/ \E w \in WorkerIds : W_Timeout(w)
    \/ DevReply

SpecBatch == InitBatch /\ [][NextBatch]_vars


\* the SetServo line of item i of the batch under way
BatchLine(i) ==
    W.SetServo \o SP \o IntChars(fn.args.items[i][1]) \o SP
               \o IntChars(fn.args.items[i][2])

\* last_deg after the first n items and nothing else
BatchDeg(n) ==
    LET ids == {fn.args.items[j][1] : j \in 1..n} IN
    [x \in ids |->
       LET last == CHOOSE j \in 1..n :
                     /\ fn.args.items[j][1] = x
                     /\ \A j2 \in (j + 1)..n : fn.args.items[j2][1] # x
       IN fn.args.items[last][2]]

\* the number of items that have been applied
BatchApplied ==
    IF fn.done /\ fn.result = 200 THEN Len(fn.args.items) ELSE fn.args.k - 1

\* C34: in a servo batch the items are applied one at a time in list order; when
\* item k fails (validation, rate limit or dispatch error) no SetServo of a later
\* item is written and the servo runtime state holds exactly the items before k
C34_BatchStopsAtFirstFailure ==
    /\ [](fn.name = "set_servo_batch" =>
            /\ Len(workers) <= fn.args.k
            /\ \A i \in 1..Len(workers) :
                 i < fn.args.k \/ fn.done => workers[i].phase \notin {"start", "wait"}
            /\ servo.last_deg = BatchDeg(BatchApplied)
            /\ DOMAIN servo.last_update_ts = DOMAIN servo.last_deg
            /\ DOMAIN servo.last_cmd_ts = DOMAIN servo.last_deg)
    /\ [][fn.name = "set_servo_batch" =>
            /\ fn'.args.k \in {fn.args.k, fn.args.k + 1}
            /\ \A i \in 1..Len(workers') :
                 (i > Len(workers) \/ workers'[i].sent # workers[i].sent)
                 /\ workers'[i].phase # "gone"
                 => /\ ~fn.done
                    /\ i = fn.args.k
                    /\ workers'[i].line = BatchLine(i)
                    /\ workers'[i].sent \in {NoLine, BatchLine(i)}
            /\ fn.done => servo'.last_deg = servo.last_deg]_vars

\* item 2 of three failed at dispatch after item 1 had been applied, item 3 is of
\* another servo
C34_Witness ==
    /\ fn.name = "set_servo_batch" /\ fn.done /\ fn.result = 500
    /\ fn.args.k = 2 /\ Len(fn.args.items) = 3
    /\ Len(workers) = 2
    /\ fn.args.items[3][1] \notin DOMAIN servo.last_deg
    /\ DOMAIN servo.last_deg = {fn.args.items[1][1]}


\* the step in which send_cmd or send_cmds of task t, resumed with the
\* exception of its worker, calls close()
CloseStep(t) ==
    /\ call[t].st = "await" /\ call'[t].st = "err"
    /\ call[t].kind = "cmds" \/ call[t].coe

\* the step in which worker w runs _send_cmd_sync from connect() on
SendStep(w) ==
    /\ workers[w].phase = "start"
    /\ workers'[w].phase \in {"wait", "err"}

\* C35: connect() on an open link and close() on a closed link leave the link
\* state as it is; close() always leaves the link disconnected with an empty
\* receive buffer; every write to the wire happens on a connected link, since
\* _send_cmd_sync connects first when the link is disconnected
C35_LinkStates ==
    /\ [](~ser_open => rx_buf = <<>>)
    /\ [][\A t \in DOMAIN call :
            CloseStep(t) =>
              /\ ~ser_open' /\ rx_buf' = <<>>
              /\ ~ser_open => UNCHANGED <<ser_open, rx_buf>>]_vars
    /\ [][\A w \in 1..Len(workers) :
            SendStep(w) =>
              /\ ser_open => UNCHANGED <<ser_open, rx_buf>>
              /\ workers'[w].sent # NoLine \/ dev_pending' # dev_pending
                 => /\ ser_open'
                    /\ ~ser_open => rx_buf' = <<>>]_vars

\* a command was written after the failure of an earlier command had closed
\* the link: its worker waits on an open link whose buffer began empty
C35_Witness ==
    /\ ser_open
    /\ faults = MaxFaults
    /\ \E t \in DOMAIN outcome : outcome[t] >= 500
    /\ Len(workers) >= 2
    /\ workers[Len(workers)].phase = "wait"
    /\ workers[Len(workers)].sent # NoLine
    /\ \A w \in 1..(Len(workers) - 1) : workers[w].phase = "gone"
    /\ Len(dev_pending) = 1


\* ---------------------------------------------------------------------------
\* send_cmd / send_cmds called on their own with arbitrary command lines

\* command lines as a caller may pass them: empty, blank, of control characters
\* only, and commands with leading, trailing, doubled or embedded white space
\* and control characters
RawLines ==
    { <<>>, SP, <<"NUL">>, <<"BOM">>, <<"TAB", "LF">>, <<"BOM", "NUL", " ", "CR">>,
      W.PING,
      SP \o W.PING \o <<"CR", "LF">>,
      <<"BOM">> \o W.PING,
      <<"P", "NUL", "I", "LF", "N", "G">>,
      W.SetAEngine \o <<" ", " ">> \o <<"5">>,
      W.SetAEngine \o <<"TAB">> \o <<"5">>,
      <<"NUL">> \o W.SetServo \o SP \o <<"1">> \o <<" ", "NUL", " ">> \o <<"9", "0">>
                \o <<"TAB", " ">> }

\* the calls: send_cmd(line, close_on_error, mark_activity) with the expected
\* prefixes inferred, and send_cmds of one or two lines
SendCalls ==
    {SendCmdFrame(l, <<>>, coe, mark) : l \in RawLines, coe \in BOOLEAN, mark \in BOOLEAN}
    \cup {SendCmdsFrame(<<l>>, mark) : l \in RawLines, mark \in BOOLEAN}
    \cup {SendCmdsFrame(<<W.PING, l>>, TRUE) : l \in RawLines}

InitSend ==
    /\ now = 1
    /\ ser_open = FALSE
    /\ rx_buf = <<>>
    /\ lock_owner = NoTask
    /\ lock_waiters = <<"caller">>
    /\ last_motor_ts = 0
    /\ last_servo_ts = 0
    /\ last_any_actuator_ts = 0
    /\ workers = <<>>
    /\ call \in {[t \in AllTasks |-> IF t = "caller" THEN c ELSE IdleCall] : c \in SendCalls}
    /\ dev_pending = <<>>
    /\ banners = 0
    /\ faults = 0
    /\ reqs = [t \in AllTasks |-> 0]
    /\ estop = FALSE
    /\ pc = [t \in AllTasks |-> IF t = "wd" THEN "sleep" ELSE "idle"]
    /\ outcome = [t \in AllTasks |-> 0]
    /\ wd = InitWd
    /\ ws = NoSession
    /\ servo = NoServo
    /\ device_info = NoDevice
    /\ settings = DefaultSettings
    /\ fn = NoCall

NextSend ==
    \/ \E t \in {"caller"} : ChanBegin(t)
    \/ \E t \in {"caller"} : ChanResume(t)
    \/ \E w \in WorkerIds : W_Send(w)
    \/ \E w \in WorkerIds : W_Read(w)
    \/ \E w \in WorkerIds : W_Timeout(w)
    \/ DevReply

SpecSend == InitSend /\ [][NextSend]_vars

\* (clean + "\n").encode("ascii"): the bytes handed to write()
Payload(clean) == clean \o <<"LF">>

\* printable ASCII, single spaces, no space at either end
WellFormedLine(s) ==
    /\ s # <<>>
    /\ \A i \in 1..Len(s) : s[i] \notin NonPrintChars
    /\ s[1] # " " /\ s[Len(s)] # " "
    /\ \A i \in 1..(Len(s) - 1) : ~(s[i] = " " /\ s[i + 1] = " ")

\* C36: a command line that sanitizes to the empty string is rejected by
\* _send_cmd_sync with nothing written and no activity timestamp changed;
\* otherwise what is written is exactly the sanitized line, of printable ASCII
\* with single spaces and no space at either end, followed by one newline
C36_SendWritesSanitizedLine ==
    /\ [][Len(workers') > Len(workers)
          /\ sanitize_outgoing_line(workers'[Len(workers')].line) = <<>>
          => UNCHANGED tsVars]_vars
    /\ [][\A w \in 1..Len(workers) :
            SendStep(w) =>
              LET clean == sanitize_outgoing_line(workers[w].line) IN
              /\ clean = <<>> =>
                   /\ workers'[w].phase = "err"
                   /\ workers'[w].err \in {"ValueError", "SerialException"}
                   /\ workers'[w].sent = NoLine
                   /\ dev_pending' = dev_pending
                   /\ UNCHANGED tsVars
              /\ clean # <<>> /\ workers'[w].phase = "wait" =>
                   /\ dev_pending' = Append(dev_pending, [cid |-> w, line |-> clean])
                   /\ workers'[w].sent = clean
                   /\ WellFormedLine(clean)
                   /\ LET payload == Payload(Head(SubSeq(dev_pending', Len(dev_pending'),
                                                         Len(dev_pending'))).line)
                      IN /\ payload[Len(payload)] = "LF"
                         /\ \A i \in 1..(Len(payload) - 1) : payload[i] # "LF"
              /\ dev_pending' # dev_pending => workers'[w].phase = "wait"]_vars

\* send_cmds has written PING and its second line was then rejected as empty
\* with the timestamps where they were
C36_Witness ==
    /\ call["caller"].kind = "cmds" /\ call["caller"].st = "err"
    /\ call["caller"].err = "ValueError"
    /\ call["caller"].idx = 2
    /\ Len(call["caller"].lines[2]) > 0
    /\ last_any_actuator_ts = 0
    /\ faults = 0


\* C37: for every servo id, whenever no servo command is in flight, last_deg[id]
\* of ServoRuntimeState is the angle of the last SetServo for that id that the
\* device acknowledged, whichever path sent it; here the path is the safe pose of
\* the watchdog, whose send_cmds returns once every line has been acknowledged
C37_LastDegIsLastAcknowledged ==
    [][pc["wd"] = "servo" /\ call["wd"].st = "ok" /\ call'["wd"].st = "idle"
         => \A sid \in DOMAIN servo'.last_deg :
               sid \in 1..servo_count =>
                 servo'.last_deg[sid] = Get(settings.servo_safe_pose, sid, servo_center_deg)]_vars


\* ---------------------------------------------------------------------------
\* POST /motor with its dependency as a step of its own: FastAPI runs the plain
\* function ensure_not_estopped in the thread pool and awaits it, so other
\* requests are served between the test of the latch and the handler

\* the dependency ensure_not_estopped of POST /motor
ensure_not_estopped_motor ==
    /\ pc["motor"] = "idle"
    /\ reqs["motor"] < MaxReqs
    /\ reqs' = [reqs EXCEPT !["motor"] = @ + 1]
    /\ IF estop
       THEN /\ outcome' = [outcome EXCEPT !["motor"] = 423]
            /\ UNCHANGED pc
       ELSE /\ pc' = [pc EXCEPT !["motor"] = "admitted"]
            /\ UNCHANGED outcome
    /\ UNCHANGED <<estop, call, lock_waiters>>
    /\ restUnchanged

\* motor_body_supported and the handler motor() up to its await of send_cmd
motor ==
    /\ pc["motor"] = "admitted"
    /\ IF ~ensure_supported_command(<<W.SetAEngine>>)
       THEN /\ outcome' = [outcome EXCEPT !["motor"] = 501]
            /\ pc' = [pc EXCEPT !["motor"] = "idle"]
            /\ UNCHANGED <<call, lock_waiters>>
       ELSE /\ \E speed \in MotorSpeeds :
                 LET line == W.SetAEngine \o SP \o IntChars(speed) IN
                 Enter("motor", SendCmdFrame(line, infer_expect_prefixes_upper(line),
                                             TRUE, TRUE))
            /\ pc' = [pc EXCEPT !["motor"] = "send"]
            /\ UNCHANGED outcome
    /\ UNCHANGED <<estop, reqs>>
    /\ restUnchanged

\* the link and the device work: the fault budget is used up at the start
InitAdmit ==
    /\ InitChanWith(MaxFaults)
    /\ InitApp
    /\ settings = DefaultSettings

NextAdmit ==
    \/ ensure_not_estopped_motor
    \/ motor
    \/ MotorReturn
    \/ estop_on
    \/ estop_on_cmd
    \/ estop_on_return
    \/ estop_reset
    \/ estop_reset_return
    \/ \E t \in RestTasks : ChanBegin(t)
    \/ \E t \in RestTasks : ChanResume(t)
    \/ \E w \in WorkerIds : W_Send(w)
    \/ \E w \in WorkerIds : W_Read(w)
    \/ DevReply
    \/ DevBanner

SpecAdmit == InitAdmit /\ [][NextAdmit]_vars

\* POST /estop has been answered, there was no reset, the motor command of a
\* request has been acknowledged and nothing holds or awaits the channel
EstopSettled ==
    /\ estop /\ reqs["reset"] = 0
    /\ reqs["estop"] = 1 /\ pc["estop"] = "idle" /\ outcome["estop"] = 200
    /\ reqs["motor"] = 1 /\ pc["motor"] = "send" /\ call["motor"].st = "ok"
    /\ lock_owner = NoTask /\ lock_waiters = <<>>

\* C38: once POST /estop has been processed and the requests in flight at that
\* moment have finished, and until a reset, the last motor command written for
\* each motor is zero-speed, whatever the interleaving.  With one motor request
\* and one trigger on a working link the workers are numbered in the order of
\* their writes and the stop batch takes two successive numbers, so the last
\* command of motor A is "SetAEngine 0" unless the request wrote a speed as
\* the third or fourth command
C38_MotorsStoppedAfterEstop ==
    EstopSettled =>
        \/ call["motor"].lines[1] \in StopLines
        \/ call["motor"].wid = 1


\* ---------------------------------------------------------------------------
\* The channel under fair scheduling: POST /motor (send_cmd) and the stop
\* batch of the watchdog (send_cmds), which the exit of the lifespan cancels

\* a wait for the reply that never runs out
W_Elapsed_Never(w) ==
    /\ w <= Len(workers)
    /\ workers[w].phase = "gone" /\ workers[w].phase = "wait"
    /\ UNCHANGED vars

\* the loop of _wait_relevant_reply_sync ends when max_wait_s is over, on the
\* clock of the worker thread: raise TimeoutError
W_Elapsed(w) ==
    /\ w <= Len(workers)
    /\ workers[w].phase = "wait"
    /\ workers' = [workers EXCEPT ![w] =
                     [workers[w] EXCEPT !.phase = "err", !.err = "TimeoutError"]]
    /\ UNCHANGED <<ser_open, rx_buf, lock_owner, lock_waiters, call, dev_pending,
                   banners, faults>>
    /\ UNCHANGED <<now, appVars>>
    /\ UNCHANGED tsVars

LiveTasks == {"motor", "wd"}

\* the server runs, a motor command was sent at time 1 and the motors have
\* been idle for watchdog_motor_idle_s: the watchdog is about to wake
InitLive ==
    /\ now = MotorIdle + 1
    /\ ser_open = FALSE
    /\ rx_buf = <<>>
    /\ lock_owner = NoTask
    /\ lock_waiters = <<>>
    /\ last_motor_ts = 1
    /\ last_servo_ts = 0
    /\ last_any_actuator_ts = 1
    /\ workers = <<>>
    /\ call = [t \in AllTasks |-> IdleCall]
    /\ dev_pending = <<>>
    /\ banners = 0
    /\ faults = 0
    /\ reqs = [t \in AllTasks |-> 0]
    /\ estop = FALSE
    /\ pc = [t \in AllTasks |-> IF t = "wd" THEN "sleep" ELSE "idle"]
    /\ outcome = [t \in AllTasks |-> 0]
    /\ wd = [InitWd EXCEPT !.wake = MotorIdle + 1]
    /\ ws = NoSession
    /\ servo = NoServo
    /\ device_info = NoDevice
    /\ fn = NoCall
    /\ settings = DefaultSettings

NextLive ==
    \/ pc["life"] = "idle" /\ MotorRequest
    \/ MotorReturn
    \/ WdTick
    \/ WdStopDone
    \/ pc["motor"] = "idle" /\ lifespan_exit
    \/ watchdog_loop_cancelled
    \/ \E t \in LiveTasks : ChanBegin(t)
    \/ \E t \in LiveTasks : ChanResume(t)
    \/ \E w \in WorkerIds : W_Send(w)
    \/ \E w \in WorkerIds : W_Read(w)
    \/ \E w \in WorkerIds : W_Lost(w)
    \/ \E w \in WorkerIds : W_Elapsed(w)
    \/ DevReply

\* the steps of the server itself: the event loop runs a coroutine that is
\* ready (the lock is free and it is first in line, its worker has finished,
\* its CancelledError is due), a worker thread runs, its clock passes.  What
\* the clients and the device do is left out
StepLive ==
    \/ watchdog_loop_cancelled
    \/ \E t \in LiveTasks : ChanBegin(t)
    \/ \E t \in LiveTasks : ChanResume(t)
    \/ \E w \in WorkerIds : W_Send(w)
    \/ \E w \in WorkerIds : W_Read(w)
    \/ \E w \in WorkerIds : W_Lost(w)
    \/ \E w \in WorkerIds : W_Elapsed(w)

SpecLive == InitLive /\ [][NextLive]_vars /\ WF_vars(StepLive)

\* C39: every send_cmd / send_cmds call terminates (reply, ProtocolError,
\* Timeout, fault or cancellation) and has released the lock when it is over, so
\* under fair scheduling every caller that waits for the channel acquires it
\* (unless it is cancelled while it waits) and the lock is never held for ever
C39_ChannelCallsTerminate ==
    /\ [](\A t \in LiveTasks :
            call[t].st \in {"idle", "wait_lock", "ok", "err"} => lock_owner # t)
    /\ \A t \in LiveTasks :
         (call[t].st = "wait_lock") ~> (lock_owner = t \/ call[t].st = "idle")
    /\ \A t \in LiveTasks :
         (call[t].st \in {"wait_lock", "await"}) ~> (call[t].st \in {"ok", "err", "idle"})
    /\ \A t \in LiveTasks :
         (lock_owner = t) ~> (lock_owner = NoTask)

\* the watchdog holds the lock for the second line of its stop batch, its
\* worker waits for the reply, and the motor request waits in line behind it
C39_Witness ==
    /\ lock_owner = "wd" /\ call["wd"].st = "await" /\ call["wd"].idx = 2
    /\ workers[call["wd"].wid].phase = "wait"
    /\ lock_waiters = <<"motor">>
    /\ call["motor"].st = "wait_lock"


\* C40: _readline_buffered_sync returns "ERR LineTooLong" only when the device
\* sent a line longer than max_line: a complete line that fits in max_line
\* bytes, its newline counted, is delivered whatever the split of its bytes
\* over the reads and whatever arrives with it in the same read.  Stated at the
\* step that returns the frame, on the buffer and the bytes that read returned
C40_LineTooLongOnlyForLongLine ==
    [][/\ fn.name = "_readline_buffered_sync" /\ ~fn.done
       /\ fn'.done /\ fn'.result = ERR_LineTooLong
       => LET chunk == SubSeq(fn.args.wire, 1, Len(fn.args.wire) - Len(fn'.args.wire))
              nl == FindNl(fn.args.buf \o chunk)
          IN nl = 0 \/ nl > MaxLineBytes]_vars

====
